---------------------------- MODULE Spec2Model ----------------------------
(***************************************************************************)
(* A model of mipsim's assemble-and-execute pipeline: the sparse block     *)
(* memory (simulator/memory.rs), the parser (assembler/parser.rs), the     *)
(* two-pass loader (simulator/load.rs), the single-step interpreter        *)
(* (simulator/processor.rs) and the worker thread with its command and     *)
(* event channels (simulator/spawn.rs).                                    *)
(*                                                                         *)
(* A 32-bit word is a pair <<hi, lo>> of 16-bit halves (TLC's integers are *)
(* 32-bit signed, so a u32 cannot be one integer).  Memory addresses and   *)
(* the program counter are usize in the source; the model keeps them as    *)
(* integers, which is exact for every address below 2^31; a negative       *)
(* integer a stands for the usize 2^64 + a, the value of `a as usize` (the *)
(* source builds only where usize has 64 bits: ADDR_MEM_MAX is 2^32).      *)
(***************************************************************************)
EXTENDS Integers, Sequences, FiniteSets, TLC

VARIABLES
    regs,       \* Processor.regs.data : [0..31 -> Word]
    mem,        \* Processor.mem : [tree |-> blocks by base address, pos |-> cursor]
    pc,         \* Processor.pc
    loaded,     \* Processor.loaded
    active,     \* Processor.active
    procQ,      \* the command channel (ProcMessage values in flight)
    appQ,       \* the event channel (AppMessage values emitted so far)
    wstate,     \* the worker thread: "idle", "blocked" (in io_recv), "exited", "panicked"
    nsent,      \* number of commands the application has sent
    hist,       \* history: commands dequeued / handlers run, last load, last step
    rbuf,       \* the buffer last filled by read_view / read
    flat,       \* reference: the bytes written since the last reset, by address
    proc_state, \* App.proc (ProcState): the receiver's copy [regs, pc, active]
    lexer       \* a Lexer inside lex(): [text, next, lexemes, line, line_has_inst, ...]

vars == <<regs, mem, pc, loaded, active, procQ, appQ, wstate, nsent, hist, rbuf, flat,
          proc_state, lexer>>

-----------------------------------------------------------------------------
(* Program constants.                                                      *)

BLOCK_SIZE == 256
ADDR_STATIC == 268435456
ADDR_TEXT == 4194304
ADDR_HEAP == 268468224
H16 == 256 * 256

REG_ZERO == 0
REG_V0 == 2
REG_A0 == 4
REG_T0 == 8
REG_T1 == 9
REG_GP == 28
REG_SP == 29
REG_RA == 31

-----------------------------------------------------------------------------
(* 16-bit and 32-bit arithmetic.                                           *)

Min(a, b) == IF a < b THEN a ELSE b

RECURSIVE Pow2(_)
Pow2(n) == IF n = 0 THEN 1 ELSE 2 * Pow2(n - 1)

RECURSIVE BitAnd(_, _)
BitAnd(a, b) ==
    IF a = 0 \/ b = 0 THEN 0
    ELSE (IF a % 2 = 1 /\ b % 2 = 1 THEN 1 ELSE 0) + 2 * BitAnd(a \div 2, b \div 2)

RECURSIVE BitOr(_, _)
BitOr(a, b) ==
    IF a = 0 THEN b
    ELSE IF b = 0 THEN a
    ELSE (IF a % 2 = 1 \/ b % 2 = 1 THEN 1 ELSE 0) + 2 * BitOr(a \div 2, b \div 2)

W(hi, lo) == <<hi, lo>>
Hi(w) == w[1]
Lo(w) == w[2]
WZero == W(0, 0)

\* u32 `|` and `&`
WOr(a, b) == W(BitOr(Hi(a), Hi(b)), BitOr(Lo(a), Lo(b)))
WAnd(a, b) == W(BitAnd(Hi(a), Hi(b)), BitAnd(Lo(a), Lo(b)))

\* `n as u32` for a non-negative n below 2^31
WordOfNat(n) == W(n \div H16, n % H16)

\* transmute::<i32, u32>(d) for an i32 d
I32ToWord(d) ==
    IF d >= 0 THEN WordOfNat(d)
    ELSE LET m == (-d) - 1 IN W(65535 - (m \div H16), 65535 - (m % H16))

\* `w as usize` for a u32 below 2^31
NatOfWord(w) == Hi(w) * H16 + Lo(w)

\* u32 wrapping_add
WAdd(a, b) ==
    LET lo == Lo(a) + Lo(b)
        hi == Hi(a) + Hi(b) + (lo \div H16)
    IN  W(hi % H16, lo % H16)

\* `x as i32` of a 16-bit immediate seen as i16 (to_signed_imm), as a u32 bit pattern
SignExt16(imm) == W(IF imm >= 32768 THEN 65535 ELSE 0, imm)

\* to_signed_imm(imm) as an integer
ToSignedImm(imm) == IF imm >= 32768 THEN imm - H16 ELSE imm

\* u32 `<<` by n in 0..31
WShl(w, n) ==
    IF n >= 16 THEN W((Lo(w) * Pow2(n - 16)) % H16, 0)
    ELSE W(((Hi(w) * Pow2(n)) % H16) + (Lo(w) \div Pow2(16 - n)), (Lo(w) * Pow2(n)) % H16)

\* u32 `>>` by n in 0..31
WShr(w, n) ==
    IF n >= 16 THEN W(0, Hi(w) \div Pow2(n - 16))
    ELSE W(Hi(w) \div Pow2(n), ((Hi(w) % Pow2(n)) * Pow2(16 - n)) + (Lo(w) \div Pow2(n)))

\* the four big-endian bytes of a word (byteorder write_u32::<BE>)
WordBytes(w) == <<Hi(w) \div 256, Hi(w) % 256, Lo(w) \div 256, Lo(w) % 256>>

\* the word of four big-endian bytes (byteorder read_u32::<BE>)
BytesWord(b) == W(b[1] * 256 + b[2], b[3] * 256 + b[4])

-----------------------------------------------------------------------------
(* Memory (simulator/memory.rs).  tree maps a block base address to a      *)
(* block, a function 0..BLOCK_SIZE-1 -> Byte; a buffer is a sequence.      *)

ZeroBlock == [i \in 0..(BLOCK_SIZE - 1) |-> 0]
EmptyFn == [n \in {} |-> 0]
MemNew == [tree |-> EmptyFn, pos |-> 0]

\* a reset that rewinds the cursor and keeps the blocks
MemResetKeepBlocks(m) == [m EXCEPT !.pos = 0]

\* Memory::reset
MemReset(m) == [tree |-> EmptyFn, pos |-> 0]

\* Memory::set_pos and Seek::seek(SeekFrom::Start)
SetPos(m, p) == [m EXCEPT !.pos = p]

\* an align that adds a whole alignment to an aligned cursor
AlignAlways(m, bytes) == [m EXCEPT !.pos = m.pos + (bytes - (m.pos % bytes))]

\* Memory::align
Align(m, bytes) ==
    LET rem == m.pos % bytes
    IN  IF rem # 0 THEN [m EXCEPT !.pos = m.pos + (bytes - rem)] ELSE m

\* Memory::block_addrs
RECURSIVE BlockAddrsFrom(_, _)
BlockAddrsFrom(addrs, limit) ==
    IF addrs[Len(addrs)] + BLOCK_SIZE < limit
    THEN BlockAddrsFrom(Append(addrs, addrs[Len(addrs)] + BLOCK_SIZE), limit)
    ELSE addrs

block_addrs(start_addr, size) ==
    BlockAddrsFrom(<<(start_addr \div BLOCK_SIZE) * BLOCK_SIZE>>, start_addr + size)

\* addr.saturating_sub(base_addr)
SatSub(a, b) == IF a > b THEN a - b ELSE 0

\* One iteration of read_view's loop over a block base: st = [read, buf].
ReadViewBlock(tree, addr, len, st, base_addr) ==
    LET read0 == IF base_addr > addr /\ st.read < base_addr - addr
                 THEN base_addr - addr ELSE st.read
        local_addr == SatSub(addr, base_addr)
    IN  IF base_addr \in DOMAIN tree
        THEN LET stop == Min(local_addr + len - read0, BLOCK_SIZE)
                 n == stop - local_addr
             IN  [read |-> read0 + n,
                  buf |-> [i \in 1..len |->
                             IF i > read0 /\ i <= read0 + n
                             THEN tree[base_addr][local_addr + (i - read0 - 1)]
                             ELSE st.buf[i]]]
        ELSE LET n == Min(len - read0, BLOCK_SIZE)
             IN  [read |-> read0 + n,
                  buf |-> [i \in 1..len |->
                             IF i > read0 /\ i <= read0 + n THEN 0 ELSE st.buf[i]]]

RECURSIVE ReadViewLoop(_, _, _, _, _, _)
ReadViewLoop(tree, addr, len, st, bases, k) ==
    IF k > Len(bases) THEN st
    ELSE ReadViewLoop(tree, addr, len,
                      ReadViewBlock(tree, addr, len, st, bases[k]), bases, k + 1)

\* Memory::read_view(addr, buf): the buffer afterwards
read_view(m, addr, buf) ==
    ReadViewLoop(m.tree, addr, Len(buf), [read |-> 0, buf |-> buf],
                 block_addrs(addr, Len(buf)), 1).buf

\* impl Read for Memory: read(buf) = read_view at the cursor, cursor += len
MemRead(m, buf) ==
    [mem |-> [m EXCEPT !.pos = m.pos + Len(buf)], buf |-> read_view(m, m.pos, buf)]

\* read_u8 / read_u16 / read_u32 through read_exact: n zeroed bytes are filled
ReadBytes(m, n) == MemRead(m, [i \in 1..n |-> 0])

\* an iteration that copies from the start of buf into every block
WriteBlockRestart(addr, buf, st, base_addr) ==
    LET len == Len(buf)
        block == IF base_addr \in DOMAIN st.tree THEN st.tree[base_addr] ELSE ZeroBlock
        start_addr == SatSub(addr, base_addr)
        end_addr == Min(start_addr + len - st.written, BLOCK_SIZE)
        newBlock == [i \in 0..(BLOCK_SIZE - 1) |->
                       IF i >= start_addr /\ i < end_addr
                       THEN buf[(i - start_addr) + 1]
                       ELSE block[i]]
    IN  [tree |-> [b \in (DOMAIN st.tree) \cup {base_addr} |->
                     IF b = base_addr THEN newBlock ELSE st.tree[b]],
         written |-> st.written + (end_addr - start_addr)]

\* One iteration of write's loop over a block base: st = [tree, written].
WriteBlock(addr, buf, st, base_addr) ==
    LET len == Len(buf)
        block == IF base_addr \in DOMAIN st.tree THEN st.tree[base_addr] ELSE ZeroBlock
        start_addr == SatSub(addr, base_addr)
        end_addr == Min(start_addr + len - st.written, BLOCK_SIZE)
        newBlock == [i \in 0..(BLOCK_SIZE - 1) |->
                       IF i >= start_addr /\ i < end_addr
                       THEN buf[st.written + (i - start_addr) + 1]
                       ELSE block[i]]
    IN  [tree |-> [b \in (DOMAIN st.tree) \cup {base_addr} |->
                     IF b = base_addr THEN newBlock ELSE st.tree[b]],
         written |-> st.written + (end_addr - start_addr)]

RECURSIVE WriteLoop(_, _, _, _, _)
WriteLoop(addr, buf, st, bases, k) ==
    IF k > Len(bases) THEN st
    ELSE WriteLoop(addr, buf, WriteBlock(addr, buf, st, bases[k]), bases, k + 1)

\* impl Write for Memory: write(buf)
MemWrite(m, buf) ==
    LET st == WriteLoop(m.pos, buf, [tree |-> m.tree, written |-> 0],
                        block_addrs(m.pos, Len(buf)), 1)
    IN  [tree |-> st.tree, pos |-> m.pos + st.written]

\* write_all: an empty buffer makes no call of write
WriteAll(m, buf) == IF Len(buf) = 0 THEN m ELSE MemWrite(m, buf)

WriteU32(m, w) == MemWrite(m, WordBytes(w))


-----------------------------------------------------------------------------
(* More u32 / i32 arithmetic used by the interpreter.                      *)

RECURSIVE BitXor(_, _)
BitXor(a, b) ==
    IF a = 0 THEN b
    ELSE IF b = 0 THEN a
    ELSE (IF (a % 2) # (b % 2) THEN 1 ELSE 0) + 2 * BitXor(a \div 2, b \div 2)

WXor(a, b) == W(BitXor(Hi(a), Hi(b)), BitXor(Lo(a), Lo(b)))
WNot(a) == W(65535 - Hi(a), 65535 - Lo(a))
\* u32 / i32 wrapping_sub
WSub(a, b) == WAdd(a, WAdd(WNot(b), W(0, 1)))
\* u32 `<`
ULess(a, b) == Hi(a) < Hi(b) \/ (Hi(a) = Hi(b) /\ Lo(a) < Lo(b))
WNeg(a) == Hi(a) >= 32768
\* i32 `<`
SLess(a, b) ==
    IF WNeg(a) # WNeg(b) THEN WNeg(a) ELSE ULess(a, b)
\* i32 `>>` by n in 0..31
WSra(w, n) ==
    IF WNeg(w) THEN WNot(WShr(WNot(w), n)) ELSE WShr(w, n)

-----------------------------------------------------------------------------
(* The instruction tables (assembler/inst.rs).                             *)

Ins(m, ty, op, fn, args) ==
    [mnemonic |-> m, ty |-> ty, opcode |-> op, func |-> fn, args |-> args]

\* instructions! { ... }: in table order (opcode and func in decimal)
INSTRUCTIONS == <<
    Ins("add",   "R", 0, 32, <<"Rd", "Rs", "Rt">>),
    Ins("addi",  "I", 8, 0,  <<"Rt", "Rs", "SImm">>),
    Ins("addiu", "I", 9, 0,  <<"Rt", "Rs", "UImm">>),
    Ins("addu",  "R", 0, 33, <<"Rd", "Rs", "Rt">>),
    Ins("and",   "R", 0, 36, <<"Rd", "Rs", "Rt">>),
    Ins("andi",  "I", 12, 0, <<"Rt", "Rs", "SImm">>),
    Ins("lui",   "I", 15, 0, <<"Rt", "UImm", "None">>),
    Ins("nor",   "R", 0, 39, <<"Rs", "Rt", "Rd">>),
    Ins("or",    "R", 0, 37, <<"Rd", "Rs", "Rt">>),
    Ins("ori",   "I", 13, 0, <<"Rt", "Rs", "SImm">>),
    Ins("slt",   "R", 0, 42, <<"Rd", "Rs", "Rt">>),
    Ins("slti",  "I", 10, 0, <<"Rt", "Rs", "SImm">>),
    Ins("sltiu", "I", 11, 0, <<"Rt", "Rs", "UImm">>),
    Ins("sltu",  "R", 0, 43, <<"Rd", "Rs", "Rt">>),
    Ins("sll",   "R", 0, 0,  <<"Rd", "Rt", "Shamt">>),
    Ins("sra",   "R", 0, 3,  <<"Rd", "Rt", "Shamt">>),
    Ins("srl",   "R", 0, 2,  <<"Rd", "Rt", "Shamt">>),
    Ins("sub",   "R", 0, 34, <<"Rd", "Rs", "Rt">>),
    Ins("subu",  "R", 35, 0, <<"Rd", "Rs", "Rt">>),
    Ins("xor",   "R", 0, 38, <<"Rd", "Rs", "Rt">>),
    Ins("lbu",   "Ils", 36, 0, <<"Rt", "SImm", "Rs">>),
    Ins("lhu",   "Ils", 37, 0, <<"Rt", "SImm", "Rs">>),
    Ins("lw",    "Ils", 35, 0, <<"Rt", "SImm", "Rs">>),
    Ins("sb",    "Ils", 40, 0, <<"Rt", "SImm", "Rs">>),
    Ins("sh",    "Ils", 41, 0, <<"Rt", "SImm", "Rs">>),
    Ins("sw",    "Ils", 43, 0, <<"Rt", "SImm", "Rs">>),
    Ins("beq",   "I", 4, 0,  <<"Rt", "Rs", "SImm">>),
    Ins("bne",   "I", 5, 0,  <<"Rt", "Rs", "SImm">>),
    Ins("j",     "J", 2, 0,  <<"Addr", "None", "None">>),
    Ins("jal",   "J", 3, 0,  <<"Addr", "None", "None">>),
    Ins("jr",    "R", 0, 8,  <<"Rs", "None", "None">>),
    Ins("syscall", "R", 0, 12, <<"None", "None", "None">> )
>>

\* pseudo_instructions! { ... }
PSEUDO_INSTRUCTIONS == <<
    Ins("la",   "Pseudo", 0, 0, <<"Rt", "Addr", "None">>),
    Ins("nop",  "Pseudo", 0, 0, <<"None", "None", "None">>),
    Ins("li",   "Pseudo", 0, 0, <<"Rt", "Word", "None">>),
    Ins("move", "Pseudo", 0, 0, <<"Rt", "Rs", "None">>)
>>

NoInst == Ins("", "None", 0, 0, <<"None", "None", "None">>)

\* HashMap::get on a map collected from the table: the last entry with the key wins
LastIn(table, hits) ==
    IF hits = {} THEN NoInst ELSE table[CHOOSE i \in hits : \A j \in hits : j <= i]

INST_MNEMONICS(m) ==
    LastIn(INSTRUCTIONS, {i \in 1..Len(INSTRUCTIONS) : INSTRUCTIONS[i].mnemonic = m})
PSEUDO_INST_MNEMONICS(m) ==
    LastIn(PSEUDO_INSTRUCTIONS,
           {i \in 1..Len(PSEUDO_INSTRUCTIONS) : PSEUDO_INSTRUCTIONS[i].mnemonic = m})
INST_OPCODE_FUNC(op, fn) ==
    LastIn(INSTRUCTIONS,
           {i \in 1..Len(INSTRUCTIONS) : INSTRUCTIONS[i].opcode = op /\ INSTRUCTIONS[i].func = fn})
INST_ADDR_RELATIVE == {"beq", "bne"}

-----------------------------------------------------------------------------
(* Registers (simulator/registers.rs).                                     *)

RegNames == <<"zero", "at", "v0", "v1", "a0", "a1", "a2", "a3",
              "t0", "t1", "t2", "t3", "t4", "t5", "t6", "t7",
              "s0", "s1", "s2", "s3", "s4", "s5", "s6", "s7",
              "t8", "t9", "k0", "k1", "gp", "sp", "fp", "ra">>

\* Registers::index on a register name: -1 stands for None
RegIndex(s) ==
    IF \E i \in 1..32 : RegNames[i] = s
    THEN (CHOOSE i \in 1..32 : RegNames[i] = s) - 1
    ELSE -1

\* Registers::default
RegistersDefault ==
    [i \in 0..31 |->
        IF i = REG_GP THEN WordOfNat(ADDR_HEAP)
        ELSE IF i = REG_SP THEN W(32768, 0)
        ELSE WZero]

\* a register file whose register 0 is wired to zero
RegSetHardZero(r, index, value) == IF index = REG_ZERO THEN r ELSE [r EXCEPT ![index] = value]

\* Registers::set_u32 / set_i32 (the value is the 32-bit pattern either way)
RegSet(r, index, value) == [r EXCEPT ![index] = value]

-----------------------------------------------------------------------------
(* The lexer over characters (assembler/lexer.rs, util/indexed_chars.rs).  *)
(* A text is a sequence of characters, each a string; "E9" stands for the  *)
(* letter U+00E9, which takes two bytes in UTF-8.  Slices are byte ranges  *)
(* <<start, end>>, end exclusive.  A lexer value is [text, next (index of  *)
(* the character chars.next() yields next), lexemes, line, line_has_inst,  *)
(* whitespace, comments, done].                                            *)

LexChars == {";", ".", "$", "a", "x", "_", ":", "-", "0", "\"", "\\", " ", "\n", ",", "E9"}

\* char::is_alphabetic, char::is_numeric, char::is_whitespace on LexChars
Alphabetic == {"a", "x", "E9"}
Numeric == {"0"}
Whitespace == {" ", "\n"}
\* c.is_numeric() || ('a'..='f').contains(c) || ('A'..='F').contains(c)
HexDigits == Numeric \cup {"a"}

\* char::len_utf8
Width(c) == IF c = "E9" THEN 2 ELSE 1

\* the byte index char_indices gives the k-th character; slice.len() for k = Len(text) + 1
RECURSIVE ByteOffset(_, _)
ByteOffset(text, k) == IF k <= 1 THEN 0 ELSE ByteOffset(text, k - 1) + Width(text[k - 1])

\* Lexer::peek_is with a character class
peek_is(text, j, accept) == j <= Len(text) /\ text[j] \in accept

\* Lexer::take_while with a character class: the index of the first character left
RECURSIVE take_while(_, _, _)
take_while(text, j, accept) ==
    IF peek_is(text, j, accept) THEN take_while(text, j + 1, accept) ELSE j

\* Lexer::take_while with the closure of the string arm (escape, end)
RECURSIVE TakeString(_, _, _)
TakeString(text, j, escape) ==
    IF j > Len(text) THEN j
    ELSE IF text[j] = "\\" /\ ~escape THEN TakeString(text, j + 1, TRUE)
    ELSE IF text[j] = "\"" /\ ~escape THEN j + 1
    ELSE TakeString(text, j + 1, FALSE)

Lexeme(start, end, line, kind) == [slice |-> <<start, end>>, line |-> line, kind |-> kind]

\* lexemes.push of the slice idx..offset after the characters before index j were taken
LexPush(lx, j, kind) ==
    [lx EXCEPT !.next = j,
               !.lexemes = Append(@, Lexeme(ByteOffset(lx.text, lx.next), ByteOffset(lx.text, j),
                                            lx.line, kind))]

\* an append_or_add_lexeme that leaves the last lexeme of the same kind as it is
append_or_add_lexemeNoExtend(lx, kind) ==
    IF lx.lexemes # <<>> /\ lx.lexemes[Len(lx.lexemes)].kind = kind
    THEN [lx EXCEPT !.next = lx.next + 1]
    ELSE LexPush(lx, lx.next + 1, kind)

\* Lexer::append_or_add_lexeme, after chars.next() took the character at lx.next
append_or_add_lexeme(lx, kind) ==
    IF lx.lexemes # <<>> /\ lx.lexemes[Len(lx.lexemes)].kind = kind
    THEN [lx EXCEPT !.next = lx.next + 1,
                    !.lexemes[Len(lx.lexemes)].slice[2] = ByteOffset(lx.text, lx.next + 1)]
    ELSE LexPush(lx, lx.next + 1, kind)

\* the label-or-instruction arm, the run of `_` and alphanumerics ending before index j
LexWord(lx, j) ==
    IF peek_is(lx.text, j, {":"}) THEN LexPush(lx, j + 1, "Label")
    ELSE IF lx.line_has_inst THEN LexPush(lx, j, "Label")
    ELSE [LexPush(lx, j, "Inst") EXCEPT !.line_has_inst = TRUE]

\* the whitespace arm
LexWhitespace(lx, c) ==
    LET l1 == IF lx.whitespace THEN append_or_add_lexeme(lx, "Whitespace")
              ELSE [lx EXCEPT !.next = lx.next + 1]
    IN  IF c = "\n" THEN [l1 EXCEPT !.line = lx.line + 1, !.line_has_inst = FALSE] ELSE l1

\* One iteration of the loop of Lexer::lex: chars.next() yields (idx, c), the match on c
LexIter(lx, c, j) ==
    CASE c \in {";", "#"} ->
           IF lx.comments THEN LexPush(lx, take_while(lx.text, j, LexChars \ {"\n"}), "Comment")
           ELSE [lx EXCEPT !.next = take_while(lx.text, j, LexChars \ {"\n"})]
      [] c = "." /\ peek_is(lx.text, j, Alphabetic) ->
           LexPush(lx, take_while(lx.text, j, Alphabetic), "Sect")
      [] c = "$" -> LexPush(lx, take_while(lx.text, j, Alphabetic \cup Numeric), "Reg")
      [] c \in Alphabetic ->
           LexWord(lx, take_while(lx.text, j, {"_"} \cup Alphabetic \cup Numeric))
      [] c = "-" /\ peek_is(lx.text, j, Numeric) ->
           LexPush(lx, take_while(lx.text, j, Numeric), "Imm")
      [] c \in Numeric ->
           IF c = "0" /\ peek_is(lx.text, j, {"x"})
           THEN LexPush(lx, take_while(lx.text, j + 1, HexDigits), "Imm")
           ELSE LexPush(lx, take_while(lx.text, j, Numeric), "Imm")
      [] c = "\"" -> LexPush(lx, TakeString(lx.text, j, FALSE), "Imm")
      [] c \in Whitespace -> LexWhitespace(lx, c)
      [] OTHER -> append_or_add_lexeme(lx, "Punct")

\* Lexer::new(text).with_whitespace(ws).with_comments(cm), entering lex()
LexerNew(text, ws, cm) ==
    [text |-> text, next |-> 1, lexemes |-> <<>>, line |-> 0, line_has_inst |-> FALSE,
     whitespace |-> ws, comments |-> cm, done |-> FALSE]

\* no text is being lexed
NoLexer == [LexerNew(<<>>, FALSE, FALSE) EXCEPT !.done = TRUE]

-----------------------------------------------------------------------------
(* Lexemes (assembler/lexer.rs, struct Lexeme) as the parser sees them:    *)
(* the lexer run by Parser::new drops whitespace and comments.  text is    *)
(* the lexeme's slice without its sigil (`.`, `$`) or trailing colon;      *)
(* colon says whether a Label lexeme ends in `:`; num describes the slice  *)
(* of an Imm lexeme: a decimal numeral (neg: a leading `-`), a `0x`        *)
(* numeral, or a string literal (its unescaped bytes, closed: it has its   *)
(* closing quote).  Numerals of the model are below 2^31.                  *)

NoNum == [fmt |-> "none", neg |-> FALSE, val |-> 0, bytes |-> <<>>, closed |-> FALSE]
Lx(kind, text, line) ==
    [kind |-> kind, text |-> text, colon |-> FALSE, num |-> NoNum, line |-> line]
LInst(m, line) == Lx("Inst", m, line)
LReg(r, line) == Lx("Reg", r, line)
LPunct(p, line) == Lx("Punct", p, line)
LSect(n, line) == Lx("Sect", n, line)
LLabelDef(n, line) == [Lx("Label", n, line) EXCEPT !.colon = TRUE]
LLabelRef(n, line) == Lx("Label", n, line)
LDec(v, line) ==
    [Lx("Imm", "", line) EXCEPT
        !.num = [fmt |-> "dec", neg |-> (v < 0), val |-> IF v < 0 THEN -v ELSE v,
                 bytes |-> <<>>, closed |-> FALSE]]
LHex(v, line) ==
    [Lx("Imm", "", line) EXCEPT
        !.num = [fmt |-> "hex", neg |-> FALSE, val |-> v, bytes |-> <<>>, closed |-> FALSE]]
LStr(bytes, closed, line) ==
    [Lx("Imm", "", line) EXCEPT
        !.num = [fmt |-> "str", neg |-> FALSE, val |-> 0, bytes |-> bytes, closed |-> closed]]

-----------------------------------------------------------------------------
(* The parser (assembler/parser.rs).                                       *)

ImmHalf(h) == [t |-> "Half", half |-> h, addr |-> WZero, label |-> ""]
ImmAddr(a) == [t |-> "Addr", half |-> 0, addr |-> a, label |-> ""]
ImmLabel(l) == [t |-> "Label", half |-> 0, addr |-> WZero, label |-> l]

\* struct Node, enum NodeKind: one record shape for every kind
Node(kind, line) ==
    [kind |-> kind, line |-> line, inst |-> "", rs |-> 0, rt |-> 0, rd |-> 0, shamt |-> 0,
     imm |-> ImmHalf(0), name |-> "", val |-> 0, bytes |-> <<>>]

POk(v, pos) == [ok |-> TRUE, v |-> v, pos |-> pos, err |-> "", arg |-> ""]
PErr(e, pos) == [ok |-> FALSE, v |-> 0, pos |-> pos, err |-> e, arg |-> ""]

\* Parser::next_expect_kind: the lexeme at pos is of the kind, and is skipped
HasKind(lex, pos, kind) == pos <= Len(lex) /\ lex[pos].kind = kind

\* Parser::expect_punct
expect_punct(lex, pos, punct) ==
    IF ~HasKind(lex, pos, "Punct") THEN PErr("ExpectedLexeme", pos)
    ELSE IF lex[pos].text = punct THEN POk(0, pos + 1)
    ELSE PErr("ExpectedPunct", pos + 1)

\* u8/u16/u32::from_str_radix(stripped, 16) and str::parse of an unsigned type
ParseUnsigned(lex, pos, max) ==
    IF ~HasKind(lex, pos, "Imm") THEN PErr("ExpectedLexeme", pos)
    ELSE LET n == lex[pos].num
         IN  IF n.fmt = "hex" /\ n.val <= max THEN POk(n.val, pos + 1)
             ELSE IF n.fmt = "dec" /\ ~n.neg /\ n.val <= max THEN POk(n.val, pos + 1)
             ELSE PErr("ParseIntError", pos + 1)

parse_u8(lex, pos) == ParseUnsigned(lex, pos, 255)
parse_u16(lex, pos) == ParseUnsigned(lex, pos, 65535)
\* numerals of the model are below 2^31, so none exceeds u32::MAX
parse_u32(lex, pos) == ParseUnsigned(lex, pos, 2147483647)

\* Parser::parse_i16: str::parse::<i16> (decimal only), transmuted to u16
parse_i16(lex, pos) ==
    IF ~HasKind(lex, pos, "Imm") THEN PErr("ExpectedLexeme", pos)
    ELSE LET n == lex[pos].num
         IN  IF n.fmt = "dec" /\ ~n.neg /\ n.val <= 32767 THEN POk(n.val, pos + 1)
             ELSE IF n.fmt = "dec" /\ n.neg /\ n.val <= 32768
                  THEN POk((H16 - n.val) % H16, pos + 1)
             ELSE PErr("ParseIntError", pos + 1)

\* Parser::parse_string
parse_string(lex, pos) ==
    IF ~HasKind(lex, pos, "Imm") THEN PErr("ExpectedLexeme", pos)
    ELSE LET n == lex[pos].num
         IN  IF n.fmt # "str" THEN PErr("ParseStringError", pos + 1)
             ELSE IF n.closed THEN POk(n.bytes, pos + 1)
             ELSE PErr("UnterminatedString", pos + 1)

\* Parser::parse_register
parse_register(lex, pos) ==
    IF ~HasKind(lex, pos, "Reg") THEN PErr("ExpectedLexeme", pos)
    ELSE IF RegIndex(lex[pos].text) < 0 THEN PErr("UnknownRegister", pos + 1)
    ELSE POk(RegIndex(lex[pos].text), pos + 1)

\* The SImm / UImm / Addr arms of parse's match on the argument slot
ParseImmArg(lex, pos, arg) ==
    IF HasKind(lex, pos, "Imm")
    THEN LET r == CASE arg = "SImm" -> parse_i16(lex, pos)
                    [] arg = "UImm" -> parse_u16(lex, pos)
                    [] OTHER -> parse_u32(lex, pos)
         IN  IF ~r.ok THEN r
             ELSE IF arg = "Addr" THEN POk(ImmAddr(WordOfNat(r.v)), r.pos)
             ELSE POk(ImmHalf(r.v), r.pos)
    ELSE IF HasKind(lex, pos, "Label") THEN POk(ImmLabel(lex[pos].text), pos + 1)
    ELSE PErr("ExpectedImm", IF pos <= Len(lex) THEN pos + 1 ELSE pos)

\* The punctuation parse expects before argument slot i (0-based)
ArgPunct(lex, pos, ty_ils, i) ==
    IF ty_ils
    THEN CASE i = 0 -> POk(0, pos)
           [] i = 1 -> expect_punct(lex, pos, ",")
           [] OTHER -> expect_punct(lex, pos, "(")
    ELSE IF i > 0 THEN expect_punct(lex, pos, ",") ELSE POk(0, pos)

\* parse's loop over the argument slots, from slot i (0-based); acc is the node so far.
\* The match on the slot has no arm for InstArg::Word (the slot of `li`); wordArm
\* says what the build does there: "imm" reads a 32-bit literal, "none" reads nothing.
RECURSIVE ParseArgs(_, _, _, _, _, _, _)

\* the value of slot arg read at pos
ParseArgValue(lex, pos, arg, acc, wordArm) ==
    CASE arg \in {"Rs", "Rt", "Rd"} -> parse_register(lex, pos)
      [] arg = "Shamt" -> parse_u8(lex, pos)
      [] arg = "Word" /\ wordArm = "imm" -> ParseImmArg(lex, pos, "Addr")
      [] arg = "Word" -> POk(acc.imm, pos)
      [] OTHER -> ParseImmArg(lex, pos, arg)

\* the node with the value of slot arg stored
StoreArg(acc, arg, v) ==
    CASE arg = "Rs" -> [acc EXCEPT !.rs = v]
      [] arg = "Rt" -> [acc EXCEPT !.rt = v]
      [] arg = "Rd" -> [acc EXCEPT !.rd = v]
      [] arg = "Shamt" -> [acc EXCEPT !.shamt = v]
      [] OTHER -> [acc EXCEPT !.imm = v]

\* after slot i: the closing `)` of a load/store, then the next slot
ParseArgClose(lex, args, ty_ils, i, acc, wordArm, q) ==
    IF ~q.ok THEN q ELSE ParseArgs(lex, q.pos, args, ty_ils, i + 1, acc, wordArm)

ParseArgStore(lex, args, ty_ils, i, acc, wordArm, r) ==
    IF ~r.ok THEN r
    ELSE ParseArgClose(lex, args, ty_ils, i, StoreArg(acc, args[i + 1], r.v), wordArm,
                       IF ty_ils /\ i = 2 THEN expect_punct(lex, r.pos, ")") ELSE POk(0, r.pos))

ParseArgRead(lex, args, ty_ils, i, acc, wordArm, p) ==
    IF ~p.ok THEN p
    ELSE ParseArgStore(lex, args, ty_ils, i, acc, wordArm,
                       ParseArgValue(lex, p.pos, args[i + 1], acc, wordArm))

ParseArgs(lex, pos, args, ty_ils, i, acc, wordArm) ==
    IF i > 2 \/ args[i + 1] = "None" THEN POk(acc, pos)
    ELSE ParseArgRead(lex, args, ty_ils, i, acc, wordArm, ArgPunct(lex, pos, ty_ils, i))

\* The LexemeKind::Inst arm of parse
InstKind(def) ==
    CASE def.ty = "R" -> "InstR"
      [] def.ty \in {"I", "Ils"} -> "InstI"
      [] def.ty = "J" -> "InstJ"
      [] OTHER -> "InstPseudo"

ParseInstDef(lex, pos, def, wordArm) ==
    ParseArgs(lex, pos + 1, def.args, def.ty = "Ils", 0,
              [Node(InstKind(def), lex[pos].line) EXCEPT !.inst = def.mnemonic], wordArm)

ParseInst(lex, pos, wordArm) ==
    IF INST_MNEMONICS(lex[pos].text) # NoInst
    THEN ParseInstDef(lex, pos, INST_MNEMONICS(lex[pos].text), wordArm)
    ELSE IF PSEUDO_INST_MNEMONICS(lex[pos].text) # NoInst
    THEN ParseInstDef(lex, pos, PSEUDO_INST_MNEMONICS(lex[pos].text), wordArm)
    ELSE [PErr("UnknownInstruction", pos + 1) EXCEPT !.arg = lex[pos].text]

\* The LexemeKind::Sect arm of parse
ParseSect(lex, pos) ==
    LET l == lex[pos]
        name == l.text
    IN  CASE name \in {"data", "text"} ->
               POk([Node("Section", l.line) EXCEPT !.name = name], pos + 1)
          [] name \in {"byte", "align"} ->
               (LET r == parse_u8(lex, pos + 1)
                IN  IF ~r.ok THEN r
                    ELSE POk([Node("Directive", l.line) EXCEPT !.name = name, !.val = r.v], r.pos))
          [] name = "half" ->
               (LET r == parse_u16(lex, pos + 1)
                IN  IF ~r.ok THEN r
                    ELSE POk([Node("Directive", l.line) EXCEPT !.name = name, !.val = r.v], r.pos))
          [] name = "word" ->
               (LET r == parse_u32(lex, pos + 1)
                IN  IF ~r.ok THEN r
                    ELSE POk([Node("Directive", l.line) EXCEPT !.name = name, !.val = r.v], r.pos))
          [] name \in {"asciiz", "stringz"} ->
               (LET r == parse_string(lex, pos + 1)
                IN  IF ~r.ok THEN r
                    ELSE POk([Node("Directive", l.line) EXCEPT !.name = name, !.bytes = r.v], r.pos))
          [] OTHER -> PErr("UnknownSectDirective", pos + 1)

\* Parser::parse: [status |-> "ok" | "err" | "panic", nodes, err, arg (the error's
\* payload where it is a name), pos (the index of the lexeme the cursor is at)]
RECURSIVE ParseFrom(_, _, _, _)

\* a parse that returns the nodes pushed before the error
ParsePushPartial(lex, nodes, wordArm, r) ==
    IF r.ok THEN ParseFrom(lex, r.pos, Append(nodes, r.v), wordArm)
    ELSE [status |-> "err", nodes |-> nodes, err |-> r.err, arg |-> r.arg, pos |-> r.pos]

\* a parsed node is pushed, a ParseError returned
ParsePush(lex, nodes, wordArm, r) ==
    IF r.ok THEN ParseFrom(lex, r.pos, Append(nodes, r.v), wordArm)
    ELSE [status |-> "err", nodes |-> <<>>, err |-> r.err, arg |-> r.arg, pos |-> r.pos]

ParseFrom(lex, pos, nodes, wordArm) ==
    IF pos > Len(lex) THEN [status |-> "ok", nodes |-> nodes, err |-> "", arg |-> "", pos |-> pos]
    ELSE CASE lex[pos].kind = "Sect" -> ParsePush(lex, nodes, wordArm, ParseSect(lex, pos))
           [] lex[pos].kind = "Label" ->
                \* strip_suffix(':').expect(..) panics on a label reference
                IF lex[pos].colon
                THEN ParsePush(lex, nodes, wordArm,
                               POk([Node("Label", lex[pos].line) EXCEPT !.name = lex[pos].text],
                                   pos + 1))
                ELSE [status |-> "panic", nodes |-> <<>>, err |-> "lexer gave bad input to parser",
                      arg |-> "", pos |-> pos + 1]
           [] lex[pos].kind = "Inst" -> ParsePush(lex, nodes, wordArm, ParseInst(lex, pos, wordArm))
           [] OTHER -> [status |-> "err", nodes |-> <<>>, err |-> "UnexpectedLexeme", arg |-> "",
                        pos |-> pos + 1]

parse(lex, wordArm) == ParseFrom(lex, 1, <<>>, wordArm)

-----------------------------------------------------------------------------
(* The loader (simulator/load.rs).  A load context is                      *)
(* [mem, labels, nwl (nodes_with_labels), lines (addr_lines), status, err].*)

\* (inst.opcode as u32) << 26 | (rs as u32) << 21 | (rt as u32) << 16, the high half
EncHi(opcode, rs, rt) == BitOr(BitOr((opcode * 1024) % H16, (rs * 32) % H16), rt % H16)

\* (rd as u32) << 11 | (shamt as u32) << 6 | (inst.func as u32), the low half
EncLoR(rd, shamt, func) == BitOr(BitOr((rd * 2048) % H16, shamt * 64), func)

\* a loader that does not queue the node for pass 2
PushNwlForget(ctx, node) == ctx

PushNwl(ctx, node) == [ctx EXCEPT !.nwl = Append(@, [addr |-> ctx.mem.pos, node |-> node])]
PushLine(ctx, node) == [ctx EXCEPT !.lines = Append(@, <<ctx.mem.pos, node.line>>)]

\* LoadContext::load_rtype
load_rtype(ctx, node, inst, rs, rt, rd, shamt) ==
    LET c1 == PushLine(ctx, node)
        encoded == W(EncHi(inst.opcode, rs, rt), EncLoR(rd, shamt, inst.func))
    IN  [c1 EXCEPT !.mem = WriteU32(c1.mem, encoded)]

\* LoadContext::load_itype
load_itype(ctx, node, inst, rs, rt, imm) ==
    LET c1 == PushLine(ctx, node)
        base == W(EncHi(inst.opcode, rs, rt), 0)
        encoded == CASE imm.t = "Half" -> WOr(base, W(0, imm.half))
                     [] imm.t = "Addr" -> WOr(base, W(0, Lo(imm.addr) \div 4))
                     [] OTHER -> base
        c2 == IF imm.t = "Label" THEN PushNwl(c1, node) ELSE c1
    IN  [c2 EXCEPT !.mem = WriteU32(c2.mem, encoded)]

\* LoadContext::load_jtype
load_jtype(ctx, node, inst, addr) ==
    LET c1 == PushLine(ctx, node)
        base == W(EncHi(inst.opcode, 0, 0), 0)
        encoded == CASE addr.t = "Half" -> WOr(base, W(0, addr.half \div 4))
                     [] addr.t = "Addr" -> WOr(base, WShr(addr.addr, 2))
                     [] OTHER -> base
        c2 == IF addr.t = "Label" THEN PushNwl(c1, node) ELSE c1
    IN  [c2 EXCEPT !.mem = WriteU32(c2.mem, encoded)]

\* The directive arms of pass 1
LoadDirective(ctx, node) ==
    LET m == ctx.mem
        m2 == CASE node.name = "byte" -> MemWrite(m, <<node.val>>)
                [] node.name = "half" -> MemWrite(m, <<node.val \div 256, node.val % 256>>)
                [] node.name = "word" -> WriteU32(m, WordOfNat(node.val))
                [] node.name = "asciiz" -> MemWrite(WriteAll(m, node.bytes), <<0>>)
                [] node.name = "stringz" -> Align(MemWrite(WriteAll(m, node.bytes), <<0>>), 4)
                [] OTHER -> Align(m, Pow2(node.val))
    IN  [ctx EXCEPT !.mem = m2]

\* The InstPseudo arm of pass 1
LoadPseudo(ctx, node) ==
    CASE node.inst = "la" ->
           load_itype(
               load_itype(PushNwl(ctx, node), node, INST_MNEMONICS("lui"), 0, node.rt, ImmHalf(0)),
               node, INST_MNEMONICS("ori"), node.rt, node.rt, ImmHalf(0))
      [] node.inst = "nop" ->
           (LET c1 == PushLine(ctx, node) IN [c1 EXCEPT !.mem = WriteU32(c1.mem, WZero)])
      [] OTHER -> [ctx EXCEPT !.status = "panic", !.err = "unimplemented"]

\* One iteration of pass 1 (load.rs, the first for loop)
Pass1Node(ctx, node) ==
    CASE node.kind = "Section" ->
           [ctx EXCEPT !.mem = SetPos(ctx.mem, IF node.name = "data" THEN ADDR_STATIC ELSE ADDR_TEXT)]
      [] node.kind = "Label" ->
           [ctx EXCEPT !.labels = [n \in (DOMAIN ctx.labels) \cup {node.name} |->
                                      IF n = node.name THEN ctx.mem.pos ELSE ctx.labels[n]]]
      [] node.kind = "Directive" -> LoadDirective(ctx, node)
      [] node.kind = "InstR" ->
           load_rtype(ctx, node, INST_MNEMONICS(node.inst), node.rs, node.rt, node.rd, node.shamt)
      [] node.kind = "InstI" ->
           load_itype(ctx, node, INST_MNEMONICS(node.inst), node.rs, node.rt, node.imm)
      [] node.kind = "InstJ" ->
           load_jtype(ctx, node, INST_MNEMONICS(node.inst), node.imm)
      [] OTHER -> LoadPseudo(ctx, node)

RECURSIVE Pass1(_, _, _)
Pass1(ctx, nodes, k) ==
    IF k > Len(nodes) \/ ctx.status # "ok" THEN ctx
    ELSE Pass1(Pass1Node(ctx, nodes[k]), nodes, k + 1)

\* an offset counted from the instruction itself, not from the one after it
RelFieldFromInst(label, addr) == I32ToWord((label - addr) \div 4)

\* transmute::<i32, u32>((*label as i32 - (addr as i32 + 4)) >> 2)
RelField(label, addr) == I32ToWord((label - (addr + 4)) \div 4)

\* the label's byte address, not shifted
AbsFieldUnshifted(label) == WordOfNat(label)

\* *label as u32 >> 2
AbsField(label) == WordOfNat(label \div 4)

\* the low half where the high half belongs
LaHiLow(target) == Lo(target)

\* ((target_addr & 0xffff0000) >> 16) as u32 and (target_addr & 0x0000ffff) as u32
LaHi(target) == Hi(target)
LaLo(target) == Lo(target)

\* Pass 2, a queued InstI / InstJ node
Pass2Inst(ctx, e) ==
    LET r == ReadBytes(SetPos(ctx.mem, e.addr), 4)
        encoded == BytesWord(r.buf)
        name == e.node.imm.label
    IN  IF name \notin DOMAIN ctx.labels
        THEN [ctx EXCEPT !.mem = r.mem, !.status = "err", !.err = name]
        ELSE LET label == ctx.labels[name]
                 patched == IF e.node.inst \in INST_ADDR_RELATIVE
                            THEN WOr(encoded, RelField(label, e.addr))
                            ELSE WOr(encoded, AbsField(label))
             IN  [ctx EXCEPT !.mem = WriteU32(SetPos(r.mem, e.addr), patched)]

\* Pass 2, a queued `la`
Pass2La(ctx, e) ==
    LET r1 == ReadBytes(SetPos(ctx.mem, e.addr), 4)
        r2 == ReadBytes(r1.mem, 4)
        lui == BytesWord(r1.buf)
        ori == BytesWord(r2.buf)
        imm == e.node.imm
    IN  IF imm.t = "Label" /\ imm.label \notin DOMAIN ctx.labels
        THEN [ctx EXCEPT !.mem = r2.mem, !.status = "err", !.err = imm.label]
        ELSE LET target == CASE imm.t = "Label" -> WordOfNat(ctx.labels[imm.label])
                             [] imm.t = "Half" -> W(0, imm.half)
                             [] OTHER -> imm.addr
                 lui2 == W(Hi(lui), LaHi(target))
                 ori2 == W(Hi(ori), LaLo(target))
             IN  [ctx EXCEPT !.mem = WriteU32(WriteU32(SetPos(r2.mem, e.addr), lui2), ori2)]

\* One iteration of pass 2 (load.rs, the second for loop)
Pass2Entry(ctx, e) ==
    CASE e.node.kind \in {"InstI", "InstJ"} -> Pass2Inst(ctx, e)
      [] e.node.kind = "InstPseudo" /\ e.node.inst = "la" -> Pass2La(ctx, e)
      [] OTHER -> [ctx EXCEPT !.status = "panic", !.err = "unreachable"]

RECURSIVE Pass2(_, _)
Pass2(ctx, k) ==
    IF k > Len(ctx.nwl) \/ ctx.status # "ok" THEN ctx
    ELSE Pass2(Pass2Entry(ctx, ctx.nwl[k]), k + 1)

\* pass 1 over the processor's memory as the previous program left it
LoadPass1NoReset(m, nodes) ==
    Pass1([mem |-> m, labels |-> EmptyFn, nwl |-> <<>>, lines |-> <<>>,
           status |-> "ok", err |-> ""], nodes, 1)

\* LoadContext::load after processor.reset(): pass 1 over the processor's cleared memory m
LoadPass1(m, nodes) ==
    Pass1([mem |-> MemReset(m), labels |-> EmptyFn, nwl |-> <<>>, lines |-> <<>>,
           status |-> "ok", err |-> ""], nodes, 1)

\* passes 1 and 2 on a new processor
LoadPasses(nodes) == Pass2(LoadPass1(MemNew, nodes), 1)

\* a collect in which the first pair of an address wins
PcLineMapFirst(lines) ==
    [a \in {lines[i][1] : i \in 1..Len(lines)} |->
        lines[CHOOSE i \in 1..Len(lines) :
                 lines[i][1] = a /\ \A j \in 1..Len(lines) : lines[j][1] = a => i <= j][2]]

\* addr_lines.into_iter().collect::<HashMap>(): the last pair of an address wins
PcLineMap(lines) ==
    [a \in {lines[i][1] : i \in 1..Len(lines)} |->
        lines[CHOOSE i \in 1..Len(lines) :
                 lines[i][1] = a /\ \A j \in 1..Len(lines) : lines[j][1] = a => j <= i][2]]

-----------------------------------------------------------------------------
(* The interpreter (simulator/processor.rs).  A processor value is         *)
(* [regs, mem, pc]; a step result adds status ("ok", "err", "block",       *)
(* "panic"), err and out (the AppMessage::Io texts sent).                   *)

StepRes(p, status, err, out) ==
    [regs |-> p.regs, mem |-> p.mem, pc |-> p.pc, status |-> status, err |-> err, out |-> out]

FieldOpcode(data) == Hi(data) \div 1024
FieldRs(data) == (Hi(data) \div 32) % 32
FieldRt(data) == Hi(data) % 32
FieldRd(data) == (Lo(data) \div 2048) % 32
FieldShamt(data) == (Lo(data) \div 64) % 32
FieldFunc(data) == Lo(data) % 64
FieldImm(data) == Lo(data)
\* encoded & 0x3ffffff
FieldAddr(data) == W(Hi(data) % 1024, Lo(data))

\* a jump that takes the field as a byte address
JumpTargetUnshifted(field) == NatOfWord(field)

\* (addr as usize) << 2 of a 26-bit field
JumpTarget(field) == NatOfWord(field) * 4

\* a taken branch that also falls through to the increment
BranchTargetThenInc(ppc, imm) == ppc + 4 + ToSignedImm(imm) * 4 + 4

\* (self.pc as isize + 4 + ((to_signed_imm(imm) as isize) << 2)) as usize
BranchTarget(ppc, imm) == ppc + 4 + ToSignedImm(imm) * 4

\* (self.regs.get_u32(rs) as i64 + to_signed_imm(imm) as i64) as usize
EffAddr(r, rs, imm) == NatOfWord(r[rs]) + ToSignedImm(imm)

Bool32(b) == IF b THEN W(0, 1) ELSE WZero

\* Processor::call_rtype
call_rtype(p, encoded, inst) ==
    LET rs == FieldRs(encoded)
        rt == FieldRt(encoded)
        rd == FieldRd(encoded)
        shamt == FieldShamt(encoded)
        r == p.regs
        f == inst.func
        next == [p EXCEPT !.pc = p.pc + 4]
    IN  CASE f = 32 -> [next EXCEPT !.regs = RegSet(r, rd, WAdd(r[rs], r[rt]))]
          [] f = 33 -> [next EXCEPT !.regs = RegSet(r, rd, WAdd(r[rs], r[rt]))]
          [] f = 36 -> [next EXCEPT !.regs = RegSet(r, rd, WAnd(r[rs], r[rt]))]
          [] f = 39 -> [next EXCEPT !.regs = RegSet(r, rd, WNot(WOr(r[rs], r[rt])))]
          [] f = 37 -> [next EXCEPT !.regs = RegSet(r, rd, WOr(r[rs], r[rt]))]
          [] f = 42 -> [next EXCEPT !.regs = RegSet(r, rd, Bool32(SLess(r[rs], r[rt])))]
          [] f = 43 -> [next EXCEPT !.regs = RegSet(r, rd, Bool32(ULess(r[rs], r[rt])))]
          [] f = 0  -> [next EXCEPT !.regs = RegSet(r, rd, WShl(r[rs], shamt))]
          [] f = 3  -> [next EXCEPT !.regs = RegSet(r, rd, WSra(r[rs], shamt))]
          [] f = 2  -> [next EXCEPT !.regs = RegSet(r, rd, WShr(r[rs], shamt))]
          [] f = 34 -> [next EXCEPT !.regs = RegSet(r, rd, WSub(r[rs], r[rt]))]
          [] f = 35 -> [next EXCEPT !.regs = RegSet(r, rt, WSub(r[rs], r[rt]))]
          [] f = 38 -> [next EXCEPT !.regs = RegSet(r, rd, WXor(r[rs], r[rt]))]
          [] OTHER  -> [p EXCEPT !.pc = NatOfWord(r[rs]) * 4]

\* Processor::call_itype
call_itype(p, encoded, inst) ==
    LET rs == FieldRs(encoded)
        rt == FieldRt(encoded)
        imm == FieldImm(encoded)
        r == p.regs
        op == inst.opcode
        next == [p EXCEPT !.pc = p.pc + 4]
        at == SetPos(p.mem, EffAddr(r, rs, imm))
    IN  CASE op = 8  -> [next EXCEPT !.regs = RegSet(r, rt, WAdd(r[rs], SignExt16(imm)))]
          [] op = 9  -> [next EXCEPT !.regs = RegSet(r, rt, WAdd(r[rs], W(0, imm)))]
          [] op = 12 -> [next EXCEPT !.regs = RegSet(r, rt, WAnd(r[rs], W(0, imm)))]
          [] op = 15 -> [next EXCEPT !.regs = RegSet(r, rt, W(imm, 0))]
          [] op = 13 -> [next EXCEPT !.regs = RegSet(r, rt, WOr(r[rs], W(0, imm)))]
          [] op = 10 -> [next EXCEPT !.regs = RegSet(r, rt, Bool32(SLess(r[rs], SignExt16(imm))))]
          [] op = 11 -> [next EXCEPT !.regs = RegSet(r, rt, Bool32(ULess(r[rs], W(0, imm))))]
          [] op = 36 -> (LET x == ReadBytes(at, 1)
                         IN  [next EXCEPT !.mem = x.mem, !.regs = RegSet(r, rt, W(0, x.buf[1]))])
          [] op = 37 -> (LET x == ReadBytes(at, 2)
                         IN  [next EXCEPT !.mem = x.mem,
                                          !.regs = RegSet(r, rt, W(0, x.buf[1] * 256 + x.buf[2]))])
          [] op = 35 -> (LET x == ReadBytes(at, 4)
                         IN  [next EXCEPT !.mem = x.mem, !.regs = RegSet(r, rt, BytesWord(x.buf))])
          [] op = 40 -> [next EXCEPT !.mem = MemWrite(at, <<Lo(r[rt]) % 256>>)]
          [] op = 41 -> [next EXCEPT !.mem = MemWrite(at, <<Lo(r[rt]) \div 256, Lo(r[rt]) % 256>>)]
          [] op = 43 -> [next EXCEPT !.mem = WriteU32(at, r[rt])]
          [] op = 4  -> IF r[rt] = r[rs] THEN [p EXCEPT !.pc = BranchTarget(p.pc, imm)] ELSE next
          [] OTHER   -> IF r[rt] # r[rs] THEN [p EXCEPT !.pc = BranchTarget(p.pc, imm)] ELSE next

\* a jal that leaves the byte address of the next instruction in $ra
call_jtypeByteRa(p, encoded, inst) ==
    LET addr == FieldAddr(encoded)
    IN  IF inst.opcode = 2
        THEN [p EXCEPT !.pc = JumpTarget(addr)]
        ELSE [p EXCEPT !.regs = RegSet(p.regs, REG_RA, WordOfNat(p.pc + 4)),
                       !.pc = JumpTarget(addr)]

\* Processor::call_jtype
call_jtype(p, encoded, inst) ==
    LET addr == FieldAddr(encoded)
    IN  IF inst.opcode = 2
        THEN [p EXCEPT !.pc = JumpTarget(addr)]
        ELSE [p EXCEPT !.regs = RegSet(p.regs, REG_RA, WAdd(WordOfNat(p.pc \div 4), W(0, 1))),
                       !.pc = JumpTarget(addr)]

\* The print-string loop of syscall 4: [mem, bytes, panic].  The loop reads one byte at a
\* time from the cursor, stops at the first NUL and panics once it has pushed more than
\* STRING_CAP bytes: it ends at the first NUL among the first STRING_CAP + 1 bytes, or
\* panics after reading them all.  The first NUL is looked for in chunks of 32 bytes.
STRING_CAP == 1024
CStrByte(m, k) == ReadBytes(SetPos(m, m.pos + k), 1).buf[1]
CStrNulsIn(m, c) ==
    {k \in (c * 32)..Min(c * 32 + 31, STRING_CAP) : CStrByte(m, k) = 0}
CStrFirstNul(m) ==
    LET chunks == {c \in 0..(STRING_CAP \div 32) : CStrNulsIn(m, c) # {}}
    IN  IF chunks = {} THEN -1
        ELSE LET c == CHOOSE x \in chunks : \A y \in chunks : x <= y
             IN  CHOOSE k \in CStrNulsIn(m, c) : \A j \in CStrNulsIn(m, c) : k <= j
ReadCStrAt(m, n) ==
    IF n < 0
    THEN [mem |-> SetPos(m, m.pos + STRING_CAP + 1),
          bytes |-> [i \in 1..(STRING_CAP + 1) |-> CStrByte(m, i - 1)], panic |-> TRUE]
    ELSE [mem |-> SetPos(m, m.pos + n + 1), bytes |-> [i \in 1..n |-> CStrByte(m, i - 1)],
          panic |-> FALSE]
ReadCStr(m) == ReadCStrAt(m, CStrFirstNul(m))

\* The syscall arm of step, up to the receive of syscall 5
Syscall(p) ==
    LET code == p.regs[REG_V0]
        next == [p EXCEPT !.pc = p.pc + 4]
    IN  CASE code = W(0, 1) ->
               StepRes(next, "ok", "", <<[t |-> "int", word |-> p.regs[REG_A0], bytes |-> <<>>]>>)
          [] code = W(0, 4) ->
               (LET s == ReadCStr(SetPos(p.mem, NatOfWord(p.regs[REG_A0])))
                IN  IF s.panic THEN StepRes([p EXCEPT !.mem = s.mem], "panic", "string too long", <<>>)
                    ELSE StepRes([next EXCEPT !.mem = s.mem], "ok", "",
                                 <<[t |-> "str", word |-> WZero, bytes |-> s.bytes]>>))
          [] code = W(0, 5) -> StepRes(p, "block", "", <<>>)
          [] OTHER -> StepRes(next, "ok", "", <<>>)

\* an unknown word skipped like a nop
UnknownInstSkip(p) == StepRes([p EXCEPT !.pc = p.pc + 4], "ok", "", <<>>)

\* The None arms of step's table lookups: println!, return Ok(())
UnknownInst(p) == StepRes(p, "ok", "", <<>>)

\* Processor::step, up to the receive of syscall 5
Step(p0) ==
    LET x == ReadBytes(SetPos(p0.mem, p0.pc), 4)
        data == BytesWord(x.buf)
        p == [p0 EXCEPT !.mem = x.mem]
        opcode == FieldOpcode(data)
    IN  IF opcode = 0
        THEN LET func == FieldFunc(data)
                 inst == INST_OPCODE_FUNC(0, func)
             IN  IF inst = NoInst THEN UnknownInst(p)
                 ELSE IF func = 12 THEN Syscall(p)
                 ELSE StepRes(call_rtype(p, data, inst), "ok", "", <<>>)
        ELSE LET inst == INST_OPCODE_FUNC(opcode, 0)
             IN  IF inst = NoInst THEN UnknownInst(p)
                 ELSE IF inst.ty \in {"I", "Ils"} THEN StepRes(call_itype(p, data, inst), "ok", "", <<>>)
                 ELSE IF inst.ty = "J" THEN StepRes(call_jtype(p, data, inst), "ok", "", <<>>)
                 ELSE StepRes(p, "panic", "unreachable", <<>>)

\* The text of an Io command: a decimal numeral (below 2^31) or other text
InNum(v) == [fmt |-> "dec", neg |-> (v < 0), val |-> IF v < 0 THEN -v ELSE v]
InText == [fmt |-> "text", neg |-> FALSE, val |-> 0]

\* str::parse::<i32>(&input): [ok, word]
ParseI32(input) ==
    IF input.fmt = "dec"
    THEN [ok |-> TRUE, word |-> I32ToWord(IF input.neg THEN -input.val ELSE input.val)]
    ELSE [ok |-> FALSE, word |-> WZero]

\* a read-int that stores 0 in v0 before it reports the parse error
ReadIntResumeClobber(p, input) ==
    LET parsed == ParseI32(input)
    IN  IF ~parsed.ok
        THEN StepRes([p EXCEPT !.regs = RegSet(p.regs, REG_V0, WZero)], "err", "IntParseError", <<>>)
        ELSE StepRes([p EXCEPT !.regs = RegSet(p.regs, REG_V0, parsed.word), !.pc = p.pc + 4],
                     "ok", "", <<>>)

\* The rest of step's syscall 5 once io_recv has returned Ok(input)
ReadIntResume(p, input) ==
    LET parsed == ParseI32(input)
    IN  IF ~parsed.ok THEN StepRes(p, "err", "IntParseError", <<>>)
        ELSE StepRes([p EXCEPT !.regs = RegSet(p.regs, REG_V0, parsed.word), !.pc = p.pc + 4],
                     "ok", "", <<>>)

-----------------------------------------------------------------------------
(* Source texts, as the lexemes the lexer yields for them.  A statement is *)
(* a sequence of lexemes; Program puts statement i on source line i - 1.   *)

MaxDist == 2        \* most filler statements between an instruction and its label
MaxSteps == 4       \* Step commands that follow the Load of an assembled program
MaxCmds == 4        \* commands the application sends to the worker
MaxQueue == 2       \* commands waiting in the command channel at once

RECURSIVE Program(_, _)
Program(stmts, k) ==
    IF k > Len(stmts) THEN <<>>
    ELSE [i \in 1..Len(stmts[k]) |-> [stmts[k][i] EXCEPT !.line = k - 1]] \o Program(stmts, k + 1)

RegName(i) == RegNames[i + 1]
SText == <<LSect("text", 0)>>
SData == <<LSect("data", 0)>>
SWord(v) == <<LSect("word", 0), LDec(v, 0)>>
SLabel(n) == <<LLabelDef(n, 0)>>
SNop == <<LInst("nop", 0)>>
SSyscall == <<LInst("syscall", 0)>>
S3(m, a, b, c) == <<LInst(m, 0), a, LPunct(",", 0), b, LPunct(",", 0), c>>
S2(m, a, b) == <<LInst(m, 0), a, LPunct(",", 0), b>>
S1(m, a) == <<LInst(m, 0), a>>
\* a load or store: m $rt, off($rs)
SIls(m, rt, off, rs) ==
    <<LInst(m, 0), rt, LPunct(",", 0), LDec(off, 0), LPunct("(", 0), rs, LPunct(")", 0)>>
SAsciiz(bytes) == <<LSect("asciiz", 0), LStr(bytes, TRUE, 0)>>
SStringz(bytes) == <<LSect("stringz", 0), LStr(bytes, TRUE, 0)>>
SByte(v) == <<LSect("byte", 0), LDec(v, 0)>>
SHalf(v) == <<LSect("half", 0), LHex(v, 0)>>
SAlign(pow) == <<LSect("align", 0), LDec(pow, 0)>>
R(i) == LReg(RegName(i), 0)
Filler(n) == [i \in 1..n |-> SNop]

\* A literal operand, written in decimal or with the 0x prefix
Operand(x, hex) == IF hex THEN LHex(x, 0) ELSE LDec(x, 0)

Src(fam, a, b, c) == [fam |-> fam, a |-> a, b |-> b, c |-> c]

WildInsts == <<"lw", "sw", "lbu">>
ShiftInsts == <<"sll", "srl", "sra">>

\* One directive by number (b: the power of an .align), and the bytes it is to write
DirNames == <<"byte", "half", "word", "asciiz", "stringz", "align">>
DirStmt(c, b) ==
    CASE c = 1 -> SByte(171)
      [] c = 2 -> SHalf(4660)
      [] c = 3 -> <<LSect("word", 0), LHex(305419896, 0)>>
      [] c = 4 -> SAsciiz(<<104, 105>>)
      [] c = 5 -> SStringz(<<104, 105>>)
      [] OTHER -> SAlign(b)
DirPayload(c) ==
    CASE c = 1 -> <<171>>
      [] c = 2 -> <<18, 52>>
      [] c = 3 -> <<18, 52, 86, 120>>
      [] c \in {4, 5} -> <<104, 105, 0>>
      [] OTHER -> <<>>

\* Programs that mix instructions, pseudo-instructions and data, by number
LinesProgram(n) ==
    CASE n = 1 ->       \* a data word between instructions of the text segment
           <<SText, SNop, S2("la", R(REG_T0), LHex(ADDR_STATIC, 0)), SWord(7),
             S3("add", R(REG_V0), R(REG_T0), R(REG_T1)), S1("j", LHex(ADDR_TEXT, 0))>>
      [] n = 2 ->       \* a second .text: its instruction replaces the first nop
           <<SText, SNop, SNop, SText, S3("addi", R(REG_T0), R(REG_ZERO), LDec(1, 0))>>
      [] n = 3 ->       \* an instruction in the data segment, a label reference in `la`
           <<SData, SWord(7), SNop, SAsciiz(<<104, 105>>), SText,
             S2("la", R(REG_T0), LLabelRef("L", 0)), SLabel("L"), SNop>>
      [] OTHER ->       \* a second .text: its data word replaces the first nop
           <<SText, SNop, SNop, SText, SWord(7)>>

\* One statement of the mnemonic with literal operands: $v0 in the Rd slot, $t0 in the Rs
\* slot, $t1 in the Rt slot and the literal in the Shamt, SImm, UImm or Addr slot
EncInsts == <<"add", "nor", "subu", "sll", "srl", "addi", "addiu", "lw", "j", "jal">>
EncOperand(arg, lit) ==
    CASE arg = "Rd" -> R(REG_V0)
      [] arg = "Rs" -> R(REG_T0)
      [] arg = "Rt" -> R(REG_T1)
      [] OTHER -> lit
EncStmt(m, lit) ==
    LET args == INST_MNEMONICS(m).args
    IN  CASE INST_MNEMONICS(m).ty = "Ils" ->
               <<LInst(m, 0), EncOperand(args[1], lit), LPunct(",", 0), EncOperand(args[2], lit),
                 LPunct("(", 0), EncOperand(args[3], lit), LPunct(")", 0)>>
          [] INST_MNEMONICS(m).ty = "J" -> S1(m, EncOperand(args[1], lit))
          [] OTHER -> S3(m, EncOperand(args[1], lit), EncOperand(args[2], lit),
                         EncOperand(args[3], lit))

\* Small programs that exercise the interpreter, by number; each starts in the text segment
ExecProgram(n) ==
    CASE n = 1 ->       \* addi / add / sub / slt
           <<SText, S3("addi", R(REG_T0), R(REG_ZERO), LDec(5, 0)),
             S3("add", R(REG_T1), R(REG_T0), R(REG_T0)),
             S3("sub", R(REG_T1), R(REG_T1), R(REG_T0)),
             S3("slt", R(REG_V0), R(REG_ZERO), R(REG_T1))>>
      [] n = 2 ->       \* addi $t0, $zero, 16 / jr $t0
           <<SText, S3("addi", R(REG_T0), R(REG_ZERO), LDec(16, 0)), S1("jr", R(REG_T0))>>
      [] n = 3 ->       \* jal F / nop / F: jr $ra
           <<SText, S1("jal", LLabelRef("F", 0)), SNop, SLabel("F"), S1("jr", R(REG_RA))>>
      [] n = 4 ->       \* bne $t0, $t1, fwd (not taken) / addi $t0, $zero, 1 / bne (taken) / nop / fwd: nop
           <<SText, S3("bne", R(REG_T0), R(REG_T1), LLabelRef("fwd", 0)),
             S3("addi", R(REG_T0), R(REG_ZERO), LDec(1, 0)),
             S3("bne", R(REG_T0), R(REG_T1), LLabelRef("fwd", 0)), SNop, SLabel("fwd"), SNop>>
      [] n = 5 ->       \* addi $t0, $zero, -2 / sw $t0, 0($gp) / lw $t1, 0($gp) / lbu $v0, 3($gp)
           <<SText, S3("addi", R(REG_T0), R(REG_ZERO), LDec(-2, 0)),
             SIls("sw", R(REG_T0), 0, R(REG_GP)), SIls("lw", R(REG_T1), 0, R(REG_GP)),
             SIls("lbu", R(REG_V0), 3, R(REG_GP))>>
      [] n = 6 ->       \* print int: addi $v0, $zero, 1 / addi $a0, $zero, -7 / syscall
           <<SText, S3("addi", R(REG_V0), R(REG_ZERO), LDec(1, 0)),
             S3("addi", R(REG_A0), R(REG_ZERO), LDec(-7, 0)), SSyscall>>
      [] n = 7 ->       \* print string: .data / S: .asciiz "hi" / .text / la $a0, S / addi $v0, $zero, 4 / syscall
           <<SData, SLabel("S"), SAsciiz(<<104, 105>>), SText, S2("la", R(REG_A0), LLabelRef("S", 0)),
             S3("addi", R(REG_V0), R(REG_ZERO), LDec(4, 0)), SSyscall>>
      [] n = 8 ->       \* a syscall code with no service: addi $v0, $zero, 9 / syscall / nop
           <<SText, S3("addi", R(REG_V0), R(REG_ZERO), LDec(9, 0)), SSyscall, SNop>>
      [] n = 9 ->       \* .word 1: opcode 0 with func 1, which no instruction has
           <<SText, SWord(1), SNop>>
      [] n = 10 ->      \* .word 0x04000000: opcode 1, which no instruction has
           <<SText, SWord(67108864), SNop>>
      [] n = 11 ->      \* lui / ori / sll / subu
           <<SText, S2("lui", R(REG_T0), LDec(4660, 0)),
             S3("ori", R(REG_T0), R(REG_T0), LDec(22136, 0)),
             S3("sll", R(REG_T1), R(REG_T0), LDec(2, 0)),
             S3("subu", R(REG_T1), R(REG_T0), R(REG_T0))>>
      [] OTHER ->       \* sh / lhu / sb / j over a word
           <<SText, SIls("sh", R(REG_SP), 2, R(REG_GP)), SIls("lhu", R(REG_T0), 2, R(REG_GP)),
             SIls("sb", R(REG_GP), 1, R(REG_GP)), S1("j", LLabelRef("E", 0)), SNop, SLabel("E"), SNop>>
ExecNumbers == 1..12

\* Programs that reference labels; `nowhere` and `missing` are defined nowhere
LabelProgram(n) ==
    CASE n = 1 ->       \* j nowhere
           <<SText, S1("j", LLabelRef("nowhere", 0))>>
      [] n = 2 ->       \* beq $t0, $t1, nowhere
           <<SText, S3("beq", R(REG_T0), R(REG_T1), LLabelRef("nowhere", 0))>>
      [] n = 3 ->       \* la $t0, nowhere
           <<SText, S2("la", R(REG_T0), LLabelRef("nowhere", 0))>>
      [] n = 4 ->       \* addi $t0, $zero, 5 / j nowhere: an instruction precedes the reference
           <<SText, S3("addi", R(REG_T0), R(REG_ZERO), LDec(5, 0)), S1("j", LLabelRef("nowhere", 0))>>
      [] n = 5 ->       \* L: j L / j missing / j nowhere: the first undefined one is `missing`
           <<SText, SLabel("L"), S1("j", LLabelRef("L", 0)), S1("j", LLabelRef("missing", 0)),
             S1("j", LLabelRef("nowhere", 0))>>
      [] n = 6 ->       \* .text / la $t0, D / j T / T: nop / .data / D: .word 7: forward, other section
           <<SText, S2("la", R(REG_T0), LLabelRef("D", 0)), S1("j", LLabelRef("T", 0)),
             SLabel("T"), SNop, SData, SLabel("D"), SWord(7)>>
      [] n = 7 ->       \* lw $t0, nowhere($t1)
           <<SText, <<LInst("lw", 0), R(REG_T0), LPunct(",", 0), LLabelRef("nowhere", 0),
                      LPunct("(", 0), R(REG_T1), LPunct(")", 0)>>>>
      [] OTHER ->       \* nowhere: nop / j nowhere: defined after all
           <<SText, SLabel("nowhere"), SNop, S1("j", LLabelRef("nowhere", 0))>>
LabelNumbers == 1..8

\* The statements of source s
Stmts(s) ==
    CASE s.fam = "addi" ->          \* [.text] addi $a, $zero, b       (c: with .text)
           (IF s.c = 1 THEN <<SText>> ELSE <<>>) \o <<S3("addi", R(s.a), R(REG_ZERO), LDec(s.b, 0))>>
      [] s.fam = "jfwd" ->          \* .text / j L / nop * a / L: nop
           <<SText, S1("j", LLabelRef("L", 0))>> \o Filler(s.a) \o <<SLabel("L"), SNop>>
      [] s.fam = "jback" ->         \* .text / L: / nop * a / j L
           <<SText, SLabel("L")>> \o Filler(s.a) \o <<S1("j", LLabelRef("L", 0))>>
      [] s.fam = "jdata" ->         \* .data / D: .word 7 / .text / j D  (c = 1: jal)
           <<SData, SLabel("D"), SWord(7), SText,
             S1(IF s.c = 1 THEN "jal" ELSE "j", LLabelRef("D", 0))>>
      [] s.fam = "bback" ->         \* .text / back: / nop * a / beq|bne $t0, $t1, back
           <<SText, SLabel("back")>> \o Filler(s.a) \o
           (IF s.c = 1 THEN <<S3("addi", R(REG_T0), R(REG_ZERO), LDec(1, 0)),
                              S3("bne", R(REG_T0), R(REG_T1), LLabelRef("back", 0))>>
            ELSE <<S3("beq", R(REG_T0), R(REG_T1), LLabelRef("back", 0))>>)
      [] s.fam = "bfwd" ->          \* .text / beq $t0, $t1, fwd / nop * a / fwd: nop
           <<SText, S3("beq", R(REG_T0), R(REG_T1), LLabelRef("fwd", 0))>> \o Filler(s.a) \o
           <<SLabel("fwd"), SNop>>
      [] s.fam = "ilabel" ->        \* .text / addi $a, $zero, L / L: nop
           <<SText, S3("addi", R(s.a), R(REG_ZERO), LLabelRef("L", 0)), SLabel("L"), SNop>>
      [] s.fam = "la" ->            \* .text / la $a, b   (b: a literal; c = 1: in hexadecimal)
           <<SText, S2("la", R(s.a), Operand(s.b, s.c = 1))>>
      [] s.fam = "lalabel" ->       \* .data / D: .word 7 / .text / nop * b / T: la $a, D|T
           <<SData, SLabel("D"), SWord(7), SText>> \o Filler(s.b) \o
           <<SLabel("T"), S2("la", R(s.a), LLabelRef(IF s.c = 1 THEN "T" ELSE "D", 0)), SNop>>
      [] s.fam = "li" ->            \* .text / li $a, b
           <<SText, S2("li", R(s.a), LDec(s.b, 0))>>
      [] s.fam = "addiu" ->         \* .text / addiu $a, $zero, b
           <<SText, S3("addiu", R(s.a), R(REG_ZERO), LDec(s.b, 0))>>
      [] s.fam = "bad" ->           \* frobnicate
           <<<<LInst("frobnicate", 0)>>>>
      [] s.fam = "readint" ->       \* .text / addi $v0, $zero, 5 / syscall
           <<SText, S3("addi", R(REG_V0), R(REG_ZERO), LDec(5, 0)), SSyscall>>
      [] s.fam = "subu" ->          \* .text / addi $t0, $zero, a / addi $t1, $zero, b / subu $v0, $t0, $t1
           <<SText, S3("addi", R(REG_T0), R(REG_ZERO), LDec(s.a, 0)),
             S3("addi", R(REG_T1), R(REG_ZERO), LDec(s.b, 0)),
             S3("subu", R(REG_V0), R(REG_T0), R(REG_T1))>>
      [] s.fam = "call" ->          \* .text / nop * a / jal F / nop / F: nop * b / jr $ra
           <<SText>> \o Filler(s.a) \o <<S1("jal", LLabelRef("F", 0)), SNop, SLabel("F")>> \o
           Filler(s.b) \o <<S1("jr", R(REG_RA))>>
      [] s.fam = "lajr" ->          \* .text / la $t0, L / jr $t0 / nop * a / L: nop
           <<SText, S2("la", R(REG_T0), LLabelRef("L", 0)), S1("jr", R(REG_T0))>> \o Filler(s.a) \o
           <<SLabel("L"), SNop>>
      [] s.fam = "unknown" ->       \* .text / addi $t0, $zero, 5 (* a) / frobnicate [$t0, 5] / nop (* b)
           <<SText>> \o [i \in 1..s.a |-> S3("addi", R(REG_T0), R(REG_ZERO), LDec(5, 0))] \o
           <<IF s.c = 1 THEN S2("frobnicate", R(REG_T0), LDec(5, 0)) ELSE <<LInst("frobnicate", 0)>>>> \o
           Filler(s.b)
      [] s.fam = "enc" ->           \* .text / EncInsts[a] with the literal b  (c = 1: in hexadecimal)
           <<SText, EncStmt(EncInsts[s.a], Operand(s.b, s.c = 1))>>
      [] s.fam = "shift" ->         \* .text / addi $t0, $zero, a / sll|srl|sra $v0, $t0, b
           <<SText, S3("addi", R(REG_T0), R(REG_ZERO), LDec(s.a, 0)),
             S3(ShiftInsts[s.c], R(REG_V0), R(REG_T0), LDec(s.b, 0))>>
      [] s.fam = "lines" -> LinesProgram(s.a)
      [] s.fam = "dir" ->           \* .data / .byte 1 (* a) / B: / directive c / E:
           <<SData>> \o [i \in 1..s.a |-> SByte(1)] \o <<SLabel("B"), DirStmt(s.c, s.b), SLabel("E")>>
      [] s.fam = "imm" ->           \* .text / EncInsts[a] with the literal b  (c = 1: in hexadecimal)
           <<SText, EncStmt(EncInsts[s.a], Operand(s.b, s.c = 1))>>
      [] s.fam = "longstr" ->       \* .data / S: .asciiz "aa..a" (a characters) / .text / la $a0, S / addi $v0, $zero, 4 / syscall
           <<SData, SLabel("S"), SAsciiz([i \in 1..s.a |-> 97]), SText,
             S2("la", R(REG_A0), LLabelRef("S", 0)),
             S3("addi", R(REG_V0), R(REG_ZERO), LDec(4, 0)), SSyscall>>
      [] s.fam = "zero" ->          \* .text / addi $zero, $zero, a / nop / addi $t0, $zero, b
           <<SText, S3("addi", R(REG_ZERO), R(REG_ZERO), LDec(s.a, 0)), SNop,
             S3("addi", R(REG_T0), R(REG_ZERO), LDec(s.b, 0))>>
      [] s.fam = "stray" ->         \* .text / nop * a / nop foo  (b = 1: addi $t0, $zero, 5 foo)
           <<SText>> \o Filler(s.a) \o
           <<(IF s.b = 0 THEN SNop ELSE S3("addi", R(REG_T0), R(REG_ZERO), LDec(5, 0))) \o
             <<LLabelRef("foo", 0)>>>>
      [] s.fam = "wild" ->          \* .text / addi $t0, $zero, a / lw|sw|lbu $v0, b($t0)
           <<SText, S3("addi", R(REG_T0), R(REG_ZERO), LDec(s.a, 0)),
             SIls(WildInsts[s.c], R(REG_V0), s.b, R(REG_T0))>>
      [] s.fam = "exec" -> ExecProgram(s.a)
      [] s.fam = "label" -> LabelProgram(s.a)
      [] OTHER -> <<>>

SourceOf(s) == Program(Stmts(s), 1)

-----------------------------------------------------------------------------
(* Messages (simulator/spawn.rs).                                           *)

\* enum ProcMessage
Cmd(kind, src, input) == [kind |-> kind, src |-> src, input |-> input]
NoSrc == Src("", 0, 0, 0)
CmdReset == Cmd("Reset", NoSrc, InText)
CmdStep == Cmd("Step", NoSrc, InText)
CmdLoad(s) == Cmd("Load", s, InText)
CmdIo(input) == Cmd("Io", NoSrc, input)

\* enum AppMessage; a Sync carries ProcSync {pc, regs, active}
Ev(kind, text) ==
    [kind |-> kind, text |-> text, pc |-> 0, active |-> FALSE, rmode |-> "",
     regs |-> <<>>, lines |-> <<>>, out |-> <<>>]
EvLog(text) == Ev("Log", text)
EvIo(out) == [Ev("Io", "") EXCEPT !.out = out]
EvPcLines(map) == [Ev("PcLines", "") EXCEPT !.lines = map]
\* Processor::sync_hard and the value Processor::reset returns
EvSyncSet(r, ppc, act) ==
    [Ev("Sync", "") EXCEPT !.pc = ppc, !.active = act, !.rmode = "Set", !.regs = r]
\* Processor::sync
EvSyncDiff(ppc, act) ==
    [Ev("Sync", "") EXCEPT !.pc = ppc, !.active = act, !.rmode = "Diff"]

\* history records: at is the command's position among those taken off the channel, ev0
\* the number of events emitted before its handler ran; arg and pos are the payload of a
\* failed parse's error and the parser's cursor when it returned
NoLoad == [src |-> NoSrc, status |-> "none", nodes |-> <<>>, labels |-> EmptyFn, nwl |-> <<>>,
           pass1 |-> MemNew, err |-> "", lines |-> <<>>, at |-> 0, ev0 |-> 0, arg |-> "",
           pos |-> 0]
NoStep == [pc |-> 0, word |-> WZero, regs |-> <<>>, status |-> "none", by |-> "", err |-> "",
           tree |-> EmptyFn, loaded |-> FALSE, at |-> 0, ev0 |-> 0]

-----------------------------------------------------------------------------
(* The worker thread (Processor::spawn) and the blocked receive            *)
(* (Processor::io_recv).                                                   *)

Proc == [regs |-> regs, mem |-> mem, pc |-> pc]

\* the big-endian word at a word-aligned address
WordAt(m, addr) == BytesWord(read_view(m, addr, <<0, 0, 0, 0>>))

Dequeue(h, executed) ==
    [h EXCEPT !.consumed = Append(@, Head(procQ)),
              !.executed = IF executed THEN Append(@, Head(procQ)) ELSE @]

\* The application sends a command (app/menu/commands.rs, app/tabs/output.rs); once the
\* worker thread has ended, its receiver is dropped and the message goes nowhere.
AppSend(cmd) ==
    /\ nsent < MaxCmds
    /\ Len(procQ) < MaxQueue
    /\ nsent' = nsent + 1
    /\ procQ' = IF wstate \in {"idle", "blocked"} THEN Append(procQ, cmd) ELSE procQ
    /\ UNCHANGED <<regs, mem, pc, loaded, active, appQ, wstate, hist, rbuf, flat, proc_state, lexer>>

\* ProcMessage::Reset => app_tx.send(Sync(proc.reset()))
WorkerReset ==
    /\ wstate = "idle" /\ procQ # <<>> /\ Head(procQ).kind = "Reset"
    /\ procQ' = Tail(procQ)
    /\ regs' = RegistersDefault
    /\ mem' = MemReset(mem)
    /\ pc' = ADDR_TEXT
    /\ loaded' = FALSE
    /\ active' = FALSE
    /\ appQ' = Append(appQ, EvSyncSet(RegistersDefault, ADDR_TEXT, FALSE))
    /\ hist' = Dequeue(hist, TRUE)
    /\ UNCHANGED <<wstate, nsent, rbuf, flat, proc_state, lexer>>

\* The Err(e) arm of the Load handler's match on the parse: Log, then `return`
LoadParseFailed(src, parsed) ==
    /\ wstate' = IF parsed.status = "err" THEN "exited" ELSE "panicked"
    /\ appQ' = IF parsed.status = "err" THEN Append(appQ, EvLog("Parse error")) ELSE appQ
    /\ hist' = [Dequeue(hist, TRUE) EXCEPT
                   !.load = [NoLoad EXCEPT !.src = src, !.status = "parse", !.err = parsed.err,
                                           !.arg = parsed.arg, !.pos = parsed.pos,
                                           !.nodes = parsed.nodes,
                                           !.at = Len(hist.consumed) + 1, !.ev0 = Len(appQ)]]
    /\ UNCHANGED <<regs, mem, pc, loaded, active>>

\* The Ok(parsed) arm: LoadContext::load, then Sync, PcLines and Log, or the error's Log
LoadParsed(src, nodes, ctx1, ctx) ==
    /\ regs' = RegistersDefault
    /\ pc' = ADDR_TEXT
    /\ active' = TRUE
    /\ mem' = ctx.mem
    /\ loaded' = (ctx.status = "ok")
    /\ wstate' = IF ctx.status = "panic" THEN "panicked" ELSE "idle"
    /\ appQ' = CASE ctx.status = "ok" ->
                      appQ \o <<EvSyncSet(RegistersDefault, ADDR_TEXT, TRUE),
                                EvPcLines(PcLineMap(ctx.lines)), EvLog("Processor loaded")>>
                 [] ctx.status = "err" -> Append(appQ, EvLog("Load error"))
                 [] OTHER -> appQ
    /\ hist' = [Dequeue(hist, TRUE) EXCEPT
                   !.load = [src |-> src, status |-> ctx.status, nodes |-> nodes,
                             labels |-> ctx.labels, nwl |-> ctx.nwl, pass1 |-> ctx1.mem,
                             err |-> ctx.err, lines |-> ctx.lines,
                             at |-> Len(hist.consumed) + 1, ev0 |-> Len(appQ),
                             arg |-> "", pos |-> 0]]

LoadPass2(src, nodes, ctx1) == LoadParsed(src, nodes, ctx1, Pass2(ctx1, 1))

LoadWith(src, parsed) ==
    IF parsed.status # "ok" THEN LoadParseFailed(src, parsed)
    ELSE LoadPass2(src, parsed.nodes, LoadPass1(mem, parsed.nodes))

\* ProcMessage::Load(body): parse, then LoadContext::load
WorkerLoad ==
    /\ wstate = "idle" /\ procQ # <<>> /\ Head(procQ).kind = "Load"
    /\ procQ' = Tail(procQ)
    /\ \E wordArm \in {"imm", "none"} :
         LoadWith(Head(procQ).src, parse(SourceOf(Head(procQ).src), wordArm))
    /\ UNCHANGED <<nsent, rbuf, flat, proc_state, lexer>>

\* std::mem::take(&mut self.regs.diff): the registers written since the last sync.  Every
\* step that writes a register returns Ok and is followed by a sync, and reset replaces
\* the whole register file, so these are the registers the step changed.
RegDiff(before, after) == [i \in {j \in 0..31 : before[j] # after[j]} |-> after[i]]

\* The events of a step that returned: Ok => Sync(proc.sync()), Log("New PC"); Err => Log
StepEvents(res) ==
    [i \in 1..Len(res.out) |-> EvIo(res.out[i])] \o
    (IF res.status = "ok"
     THEN <<[EvSyncDiff(res.pc, active) EXCEPT !.regs = RegDiff(regs, res.regs)], EvLog("New PC")>>
     ELSE IF res.status = "err" THEN <<EvLog("Step error")>>
     ELSE <<>>)

\* ProcMessage::Step => proc.step(), up to its return or its receive in syscall 5
WorkerStep ==
    /\ wstate = "idle" /\ procQ # <<>> /\ Head(procQ).kind = "Step"
    /\ procQ' = Tail(procQ)
    /\ LET res == Step(Proc)
       IN  /\ regs' = res.regs
           /\ mem' = res.mem
           /\ pc' = res.pc
           /\ wstate' = CASE res.status = "block" -> "blocked"
                          [] res.status = "panic" -> "panicked"
                          [] OTHER -> "idle"
           /\ appQ' = appQ \o StepEvents(res)
           /\ hist' = [Dequeue(hist, TRUE) EXCEPT
                          !.step = [pc |-> pc, word |-> WordAt(mem, pc), regs |-> regs,
                                    status |-> res.status, by |-> "", err |-> res.err,
                                    tree |-> mem.tree,
                                    loaded |-> loaded, at |-> Len(hist.consumed) + 1,
                                    ev0 |-> Len(appQ)]]
    /\ UNCHANGED <<loaded, active, nsent, rbuf, flat, proc_state, lexer>>

\* an Io handler that hands the line to the program as the result of a read
WorkerIoDeliver ==
    /\ wstate = "idle" /\ procQ # <<>> /\ Head(procQ).kind = "Io"
    /\ procQ' = Tail(procQ)
    /\ hist' = Dequeue(hist, FALSE)
    /\ regs' = RegSet(regs, REG_V0, ParseI32(Head(procQ).input).word)
    /\ UNCHANGED <<mem, pc, loaded, active, appQ, wstate, nsent, rbuf, flat, proc_state, lexer>>

\* ProcMessage::Io(_) => ()
WorkerIo ==
    /\ wstate = "idle" /\ procQ # <<>> /\ Head(procQ).kind = "Io"
    /\ procQ' = Tail(procQ)
    /\ hist' = Dequeue(hist, FALSE)
    /\ UNCHANGED <<regs, mem, pc, loaded, active, appQ, wstate, nsent, rbuf, flat, proc_state, lexer>>

\* Processor::io_recv inside a step blocked on syscall 5, and the rest of that step
BlockedRecv ==
    /\ wstate = "blocked" /\ procQ # <<>>
    /\ procQ' = Tail(procQ)
    /\ LET msg == Head(procQ)
           res == CASE msg.kind = "Io" -> ReadIntResume(Proc, msg.input)
                    [] msg.kind = "Step" -> StepRes(Proc, "block", "", <<>>)
                    [] OTHER -> StepRes(Proc, "err", "IoRecvError", <<>>)
       IN  /\ regs' = res.regs
           /\ mem' = res.mem
           /\ pc' = res.pc
           /\ wstate' = IF res.status = "block" THEN "blocked" ELSE "idle"
           /\ appQ' = appQ \o StepEvents(res)
           /\ hist' = [Dequeue(hist, FALSE) EXCEPT !.step.status = res.status,
                                                   !.step.by = msg.kind,
                                                   !.step.err = res.err,
                                                   !.step.at = Len(hist.consumed) + 1]
    /\ UNCHANGED <<loaded, active, nsent, rbuf, flat, proc_state, lexer>>

\* the result of the last read_view / read: the address read and the buffer filled
NoRead == [addr |-> 0, buf |-> <<>>]

NoSync == [regs |-> <<>>, mode |-> "", diff |-> EmptyFn, set |-> <<>>]
\* the last write: the cursor and the blocks before it, its buffer and the count it returned
NoWrite == [pos |-> 0, buf |-> <<>>, tree |-> EmptyFn, ret |-> 0]

NoHist == [consumed |-> <<>>, executed |-> <<>>, load |-> NoLoad, step |-> NoStep, ops |-> 0,
           op |-> "", sync |-> NoSync, write |-> NoWrite]

\* App::new: proc: ProcState { regs: [Register(0); 32], pc: 0, active: false, .. }
ProcStateNew == [regs |-> [i \in 0..31 |-> WZero], pc |-> 0, active |-> FALSE]

\* Processor::new, and the first Sync the worker thread sends
InitProc ==
    /\ regs = RegistersDefault
    /\ mem = MemNew
    /\ pc = ADDR_TEXT
    /\ loaded = FALSE
    /\ active = FALSE
    /\ appQ = <<EvSyncSet(RegistersDefault, ADDR_TEXT, FALSE)>>
    /\ wstate = "idle"
    /\ hist = NoHist
    /\ rbuf = NoRead
    /\ flat = EmptyFn
    /\ proc_state = ProcStateNew

-----------------------------------------------------------------------------
(* Spec: the worker under every command sequence of at most MaxCmds.       *)

WorkerSources == {Src("bad", 0, 0, 0), Src("readint", 0, 0, 0), Src("addi", REG_T0, 5, 1)}
Inputs == {InNum(7), InText}
Commands ==
    {CmdReset, CmdStep} \cup {CmdLoad(s) : s \in WorkerSources} \cup {CmdIo(i) : i \in Inputs}

Init == InitProc /\ procQ = <<>> /\ nsent = 0 /\ lexer = NoLexer

Next ==
    \/ \E cmd \in Commands : AppSend(cmd)
    \/ WorkerReset
    \/ WorkerLoad
    \/ WorkerStep
    \/ WorkerIo
    \/ BlockedRecv

Spec == Init /\ [][Next]_vars

-----------------------------------------------------------------------------
(* SpecAsm: one source is assembled (Load) and then stepped MaxSteps times. *)

Imms == {-32768, -1, 0, 5, 32767}
Literals == {0, 42, 65535, 65536, 305419896}      \* 305419896 = 0x12345678
Dists == 0..MaxDist

AsmSources ==
    {Src("addi", a, b, c) : a \in {REG_T0, REG_T1}, b \in Imms, c \in {0, 1}}
    \cup {Src(f, a, 0, 0) : f \in {"jfwd", "jback", "bfwd"}, a \in Dists}
    \cup {Src("jdata", 0, 0, c) : c \in {0, 1}}
    \cup {Src("bback", a, 0, c) : a \in Dists, c \in {0, 1}}
    \cup {Src("ilabel", a, 0, 0) : a \in {REG_T0, REG_T1}}
    \cup {Src("la", a, b, c) : a \in {REG_T0, REG_T1}, b \in Literals, c \in {0, 1}}
    \cup {Src("lalabel", a, b, c) : a \in {REG_T0}, b \in Dists, c \in {0, 1}}
    \cup {Src(f, REG_T0, 42, 0) : f \in {"li", "addiu"}}
    \cup {Src("exec", n, 0, 0) : n \in ExecNumbers}
    \cup {Src("label", n, 0, 0) : n \in LabelNumbers}
    \cup {Src("subu", a, b, 0) : a \in {0, 5, 7}, b \in {-1, 0, 5}}
    \cup {Src("call", a, b, 0) : a \in Dists, b \in {0, 1}}
    \cup {Src("lajr", a, 0, 0) : a \in Dists}
    \cup {Src("unknown", a, b, c) : a \in Dists, b \in {0, 1}, c \in {0, 1}}
    \cup {Src("shift", a, b, c) : a \in {5, -8}, b \in {0, 1, 31}, c \in 1..3}
    \cup {Src("dir", a, 0, c) : a \in 0..4, c \in 1..5}
    \cup {Src("dir", a, b, 6) : a \in 0..4, b \in 0..3}
    \cup {Src("imm", a, b, c) : a \in 6..9, b \in {0, 255, 32767}, c \in {0, 1}}
    \cup {Src("longstr", a, 0, 0) : a \in {2, 1024, 1025}}
    \cup {Src("zero", a, b, 0) : a \in {5, -1}, b \in {0, 1}}
    \cup {Src("stray", a, b, 0) : a \in Dists, b \in {0, 1}}
    \cup {Src("wild", a, b, c) : a \in {0, 264}, b \in {-264, 8}, c \in 1..3}
    \cup {Src("enc", a, 0, 0) : a \in 1..3}
    \cup {Src("lines", a, 0, 0) : a \in 1..4}
    \cup {Src("enc", a, b, 0) : a \in 4..5, b \in {0, 31, 32, 255}}
    \cup {Src("enc", 6, b, 0) : b \in {-32768, -1, 32767}}
    \cup {Src("enc", 7, 65535, 1), Src("enc", 8, 4, 0), Src("enc", 8, -264, 0)}
    \cup {Src("enc", a, b, 1) : a \in 9..10, b \in {ADDR_TEXT, 268435452, 268435456}}

InitAsm ==
    /\ InitProc
    /\ nsent = 0
    /\ lexer = NoLexer
    /\ \E s \in AsmSources : procQ = <<CmdLoad(s)>> \o [i \in 1..MaxSteps |-> CmdStep]

NextAsm ==
    \/ WorkerLoad
    \/ WorkerStep

SpecAsm == InitAsm /\ [][NextAsm]_vars

-----------------------------------------------------------------------------
(* SpecRun: the worker handles one command script: a Load, up to           *)
(* MaxRunSteps Steps, then up to two more commands of any kind.            *)

MaxRunSteps == 3    \* Step commands between the Load and the script's tail

RunSources ==
    {Src("exec", n, 0, 0) : n \in ExecNumbers}
    \cup {Src("label", n, 0, 0) : n \in {1, 4}}
    \cup {Src("readint", 0, 0, 0), Src("addi", REG_T0, 5, 1), Src("bad", 0, 0, 0)}
RunInputs == {InNum(7), InNum(-3), InText}
TailCommands ==
    {CmdReset, CmdStep} \cup {CmdIo(i) : i \in RunInputs}
    \cup {CmdLoad(s) : s \in {Src("addi", REG_T0, 5, 1), Src("bad", 0, 0, 0), Src("label", 4, 0, 0)}}
Tails == {<<>>} \cup {<<x>> : x \in TailCommands} \cup {<<x, y>> : x \in TailCommands, y \in TailCommands}
\* scripts in which an input line arrives before the step that reads one
EarlyIoScripts ==
    {<<CmdLoad(Src("readint", 0, 0, 0)), CmdStep, CmdIo(x), CmdStep>> \o t :
        x \in RunInputs, t \in Tails}
Scripts ==
    {<<CmdLoad(s)>> \o [i \in 1..n |-> CmdStep] \o t : s \in RunSources, n \in 0..MaxRunSteps, t \in Tails}
    \cup EarlyIoScripts

InitRun ==
    /\ InitProc
    /\ nsent = 0
    /\ lexer = NoLexer
    /\ procQ \in Scripts

NextRun ==
    \/ WorkerReset
    \/ WorkerLoad
    \/ WorkerStep
    \/ WorkerIo
    \/ BlockedRecv

SpecRun == InitRun /\ [][NextRun]_vars

-----------------------------------------------------------------------------
(* SpecMem: seeks, writes and reads on one Memory, next to a flat array.   *)

MaxOps == 4         \* memory operations since construction

SeekPositions == {ADDR_STATIC - 128, ADDR_STATIC - 2, ADDR_STATIC}
WriteBuffers == {<<7>>, <<1, 2, 3, 4>>, [i \in 1..(BLOCK_SIZE + 4) |-> (i % 251) + 1]}
ReadLengths == {4, BLOCK_SIZE}

\* the flat array after buf is written at addr
FlatWrite(f, addr, buf) ==
    [a \in (DOMAIN f) \cup {addr + i - 1 : i \in 1..Len(buf)} |->
        IF a >= addr /\ a < addr + Len(buf) THEN buf[a - addr + 1] ELSE f[a]]

\* the flat array's bytes at addr .. addr + len - 1
FlatRead(f, addr, len) ==
    [i \in 1..len |-> IF (addr + i - 1) \in DOMAIN f THEN f[addr + i - 1] ELSE 0]

MemOp(name) ==
         /\ hist.ops < MaxOps
         /\ hist' = [hist EXCEPT !.ops = @ + 1, !.op = name, !.write = NoWrite]
         /\ UNCHANGED <<regs, pc, loaded, active, procQ, appQ, wstate, nsent, proc_state, lexer>>

\* Seek::seek(SeekFrom::Start(p))
MemSeek(p) ==
    /\ MemOp("seek")
    /\ mem' = SetPos(mem, p)
    /\ UNCHANGED <<rbuf, flat>>

\* Write::write(buf)
MemWriteOp(buf) ==
    /\ hist.ops < MaxOps
    /\ hist' = [hist EXCEPT !.ops = @ + 1, !.op = "write",
                            !.write = [pos |-> mem.pos, buf |-> buf, tree |-> mem.tree,
                                       ret |-> MemWrite(mem, buf).pos - mem.pos]]
    /\ UNCHANGED <<regs, pc, loaded, active, procQ, appQ, wstate, nsent, proc_state, lexer>>
    /\ mem' = MemWrite(mem, buf)
    /\ flat' = FlatWrite(flat, mem.pos, buf)
    /\ UNCHANGED rbuf

\* Memory::read_view(addr, buf) on a buffer of len bytes
MemReadView(addr, len) ==
    /\ MemOp("read_view")
    /\ rbuf' = [addr |-> addr, buf |-> read_view(mem, addr, [i \in 1..len |-> 0])]
    /\ UNCHANGED <<mem, flat>>

\* Read::read(buf) on a buffer of len bytes
MemReadOp(len) ==
    /\ MemOp("read")
    /\ mem' = ReadBytes(mem, len).mem
    /\ rbuf' = [addr |-> mem.pos, buf |-> ReadBytes(mem, len).buf]
    /\ UNCHANGED flat

\* Memory::reset
MemResetOp ==
    /\ MemOp("reset")
    /\ mem' = MemReset(mem)
    /\ flat' = EmptyFn
    /\ UNCHANGED rbuf

InitMem == InitProc /\ procQ = <<>> /\ nsent = 0 /\ lexer = NoLexer

NextMem ==
    \/ \E p \in SeekPositions : MemSeek(p)
    \/ \E buf \in WriteBuffers : MemWriteOp(buf)
    \/ \E addr \in SeekPositions, len \in ReadLengths : MemReadView(addr, len)
    \/ \E len \in ReadLengths : MemReadOp(len)
    \/ MemResetOp

SpecMem == InitMem /\ [][NextMem]_vars

-----------------------------------------------------------------------------
(* Properties of the memory, checked under SpecMem.                        *)

\* C5: right after read_view(addr, buf) or a sequential read at the cursor, every buf[i]
\* is the byte last written at addr + i since the last reset, or 0 if none was written.
C5_ReadsMatchFlatArray ==
    hist.op \in {"read_view", "read"} => rbuf.buf = FlatRead(flat, rbuf.addr, Len(rbuf.buf))

\* block b of block map t (zeros where none is allocated)
BlockOf(t, b) == IF b \in DOMAIN t THEN t[b] ELSE ZeroBlock

\* C24: right after write(bytes) at cursor p, with bytes not empty and lying in one block
\* or across one or two block boundaries: the call returned len(bytes), the cursor is
\* p + len(bytes), read_view(p, len(bytes)) yields bytes, every byte outside [p, p + len)
\* is what it was, no block was released, and every block allocated by the call
\* intersects [p, p + len).
C24_SequentialWrite ==
    hist.op = "write" =>
        /\ hist.write.ret = Len(hist.write.buf)
        /\ mem.pos = hist.write.pos + Len(hist.write.buf)
        /\ read_view(mem, hist.write.pos, [i \in 1..Len(hist.write.buf) |-> 255]) = hist.write.buf
        /\ DOMAIN hist.write.tree \subseteq DOMAIN mem.tree
        /\ \A b \in DOMAIN mem.tree :
               IF b + BLOCK_SIZE <= hist.write.pos \/ b >= hist.write.pos + Len(hist.write.buf)
               THEN b \in DOMAIN hist.write.tree /\ mem.tree[b] = hist.write.tree[b]
               ELSE \A o \in 0..(BLOCK_SIZE - 1) :
                        (b + o < hist.write.pos \/ b + o >= hist.write.pos + Len(hist.write.buf)) =>
                            mem.tree[b][o] = BlockOf(hist.write.tree, b)[o]

\* C24 (reached): a write of more than a block's bytes has crossed two block boundaries
\* and allocated three blocks, over bytes an earlier write had left
C24_Witness ==
    /\ hist.op = "write"
    /\ Len(hist.write.buf) > BLOCK_SIZE
    /\ hist.write.pos = ADDR_STATIC - 2
    /\ DOMAIN hist.write.tree # {}
    /\ {ADDR_STATIC - BLOCK_SIZE, ADDR_STATIC, ADDR_STATIC + BLOCK_SIZE} \subseteq DOMAIN mem.tree
    /\ mem.pos = ADDR_STATIC + BLOCK_SIZE + 2

-----------------------------------------------------------------------------
(* Properties of assemble-then-step, checked under SpecAsm.                *)

Loaded(fams) == hist.load.status # "none" /\ hist.load.src.fam \in fams
StepsDone == Len(hist.executed) - 1

\* C1: one step after the load of a program whose first instruction is `addi rt, $zero, k`
\* (with or without a `.text` line before it) leaves rt = k and PC = text_base + 4.
C1_AddiRoundTrip ==
    (Loaded({"addi"}) /\ StepsDone = 1) =>
        /\ regs[hist.load.src.a] = I32ToWord(hist.load.src.b)
        /\ pc = ADDR_TEXT + 4

\* the first queued label reference of the last load, and the word now at its address
Ref == hist.load.nwl[1]
RefWord == WordAt(mem, Ref.addr)

\* C6: a beq/bne whose label `back` precedes it is, after load, still the same branch
\* with the same register fields, its 16-bit field sign-extended, shifted left by 2 and
\* added to PC + 4 is the address of `back`, and executing it taken sets PC to `back`.
C6_BackwardBranch ==
    Loaded({"bback"}) =>
        /\ hist.load.status = "ok"
        /\ FieldOpcode(RefWord) = INST_MNEMONICS(Ref.node.inst).opcode
        /\ FieldRs(RefWord) = Ref.node.rs
        /\ FieldRt(RefWord) = Ref.node.rt
        /\ BranchTarget(Ref.addr, FieldImm(RefWord)) = hist.load.labels["back"]
        /\ (hist.step.status = "ok" /\ hist.step.pc = Ref.addr)
               => pc = hist.load.labels["back"]

\* C7: pass 2 leaves bits 31..16 of every label-referencing I-type word and bits 31..26
\* of every label-referencing J-type word as pass 1 wrote them.
C7_BackpatchKeepsFields ==
    hist.load.status = "ok" =>
        \A i \in 1..Len(hist.load.nwl) :
            LET e == hist.load.nwl[i]
            IN  /\ e.node.kind = "InstI" =>
                       Hi(WordAt(mem, e.addr)) = Hi(WordAt(hist.load.pass1, e.addr))
                /\ e.node.kind = "InstJ" =>
                       FieldOpcode(WordAt(mem, e.addr)) =
                       FieldOpcode(WordAt(hist.load.pass1, e.addr))

\* C8: for `j L` with L defined later or earlier in the text segment, the load succeeds,
\* the loaded word has the j opcode (2) and the address field address_of(L) >> 2, and
\* executing it sets PC to address_of(L).
C8_JumpToTextLabel ==
    Loaded({"jfwd", "jback"}) =>
        /\ hist.load.status = "ok"
        /\ FieldOpcode(RefWord) = 2
        /\ FieldAddr(RefWord) = WordOfNat(hist.load.labels["L"] \div 4)
        /\ (hist.step.status = "ok" /\ hist.step.pc = Ref.addr) => pc = hist.load.labels["L"]

\* C8 (reached): a j over MaxDist filler words, forward or backward, has been loaded
\* and executed
C8_Witness ==
    /\ Loaded({"jfwd", "jback"}) /\ hist.load.status = "ok"
    /\ hist.load.src.a = MaxDist
    /\ hist.step.status = "ok" /\ hist.step.pc = Ref.addr
    /\ pc = hist.load.labels["L"]

\* the operand X of the `la` of the last load as a 32-bit value
LaOperand ==
    IF Ref.node.imm.t = "Label" THEN WordOfNat(hist.load.labels[Ref.node.imm.label])
    ELSE WordOfNat(hist.load.src.b)

\* C9: `la rt, X` loads as exactly two words, lui rt, hi16(X) (opcode 15, rs 0) and
\* ori rt, rt, lo16(X) (opcode 13), and executing the two leaves rt = X.
C9_LoadAddressExpansion ==
    Loaded({"la", "lalabel"}) =>
        /\ hist.load.status = "ok"
        /\ Len(hist.load.nwl) = 1
        /\ RefWord = W(15 * 1024 + Ref.node.rt, Hi(LaOperand))
        /\ WordAt(mem, Ref.addr + 4) = W(13 * 1024 + Ref.node.rt * 32 + Ref.node.rt, Lo(LaOperand))
        /\ hist.load.pass1.pos = Ref.addr + 8 + (IF hist.load.src.fam = "lalabel" THEN 4 ELSE 0)
        /\ (hist.step.status = "ok" /\ hist.step.pc = Ref.addr + 4) =>
               /\ regs[Ref.node.rt] = LaOperand
               /\ pc = Ref.addr + 8

\* C9 (reached): both words of `la $t0, 0x12345678` have been executed
C9_Witness ==
    /\ Loaded({"la"}) /\ hist.load.status = "ok"
    /\ hist.load.src.b = 305419896 /\ hist.load.src.c = 1
    /\ hist.step.status = "ok" /\ hist.step.pc = Ref.addr + 4
    /\ regs[REG_T0] = W(4660, 22136)

\* C9 (reached, label operand): the two words of a `la` of a data label have been executed
C9_WitnessLabel ==
    /\ Loaded({"lalabel"}) /\ hist.load.status = "ok"
    /\ hist.step.status = "ok" /\ hist.step.pc = Ref.addr + 4
    /\ regs[REG_T0] = WordOfNat(ADDR_STATIC)

\* the processor one step after the load of source s
LoadedAndStepped(s) ==
    Step([regs |-> RegistersDefault, mem |-> LoadPasses(parse(SourceOf(s), "imm").nodes).mem,
          pc |-> ADDR_TEXT])

\* C10: a program with `li rt, k` loads, and one step of it leaves registers, memory and
\* PC as one step of `addiu rt, $zero, k` does.
C10_LiLikeAddiu ==
    Loaded({"li"}) =>
        /\ hist.load.status = "ok"
        /\ StepsDone = 1 =>
             LET want == LoadedAndStepped([hist.load.src EXCEPT !.fam = "addiu"])
             IN  regs = want.regs /\ pc = want.pc /\ mem.tree = want.mem.tree

-----------------------------------------------------------------------------
(* Properties of the worker, checked under Spec.                           *)

IsProgramCmd(c) == c.kind \in {"Reset", "Load", "Step"}

\* C2: the Reset, Load and Step commands the worker has taken off the channel are exactly
\* the ones whose handlers it has run, in the same order.
C2_EveryCommandExecuted == SelectSeq(hist.consumed, IsProgramCmd) = hist.executed

\* C3: a step suspended in syscall 5 ends, with a result or an error, only on an Io command.
C3_BlockedUntilIo ==
    (hist.step.by # "" /\ hist.step.status # "block") => hist.step.by = "Io"

\* C4: after a Load whose source fails to parse, the worker still takes commands.
C4_ParseErrorRecoverable == hist.load.status = "parse" => wstate \in {"idle", "blocked"}
-----------------------------------------------------------------------------
(* Properties of the interpreter and the worker, checked under SpecRun.    *)

\* the last command taken off the channel was a Step that returned, or ended a suspended one
StepEnded == hist.step.status \in {"ok", "err"} /\ hist.step.at = Len(hist.consumed)

\* the word the last step fetched, and whether the instruction table has its opcode/func
Fetched == hist.step.word
FetchedKnown ==
    IF Hi(Fetched) \div 1024 = 0
    THEN \E i \in 1..Len(INSTRUCTIONS) :
            INSTRUCTIONS[i].opcode = 0 /\ INSTRUCTIONS[i].func = Lo(Fetched) % 64
    ELSE \E i \in 1..Len(INSTRUCTIONS) :
            INSTRUCTIONS[i].opcode = Hi(Fetched) \div 1024 /\ INSTRUCTIONS[i].func = 0
FetchedSyscall == Hi(Fetched) \div 1024 = 0 /\ Lo(Fetched) % 64 = 12

\* where the fetched instruction redirects PC given the registers before the step; -1 if
\* it does not redirect (a branch not taken, or any other instruction)
RedirectTarget ==
    LET op == Hi(Fetched) \div 1024
        rs == (Hi(Fetched) \div 32) % 32
        rt == Hi(Fetched) % 32
        imm == Lo(Fetched)
        off == IF imm >= 32768 THEN imm - 65536 ELSE imm
        r == hist.step.regs
    IN  CASE op \in {2, 3} -> ((Hi(Fetched) % 1024) * 65536 + Lo(Fetched)) * 4
          [] op = 0 /\ Lo(Fetched) % 64 = 8 -> (Hi(r[rs]) * 65536 + Lo(r[rs])) * 4
          [] op = 4 /\ r[rs] = r[rt] -> hist.step.pc + 4 + 4 * off
          [] op = 5 /\ r[rs] # r[rt] -> hist.step.pc + 4 + 4 * off
          [] OTHER -> -1

C12_SyscallAdvancesPc ==
    (StepEnded /\ FetchedSyscall) => pc = hist.step.pc + 4

\* the text of the Io command that ended the suspended step
IoText == hist.consumed[Len(hist.consumed)].input

\* C13: a step suspended in syscall 5 that receives an Io text which is no signed 32-bit
\* integer fails with the parse error, which the worker logs, and leaves every register
\* (v0 included) and the loaded flag as they were; a text that is one sets v0 to its value.
C13_ReadIntParse ==
    (StepEnded /\ hist.step.by = "Io") =>
        IF IoText.fmt = "dec"
        THEN /\ hist.step.status = "ok"
             /\ regs[REG_V0] = (IF IoText.neg THEN <<65535, 65536 - IoText.val>> ELSE <<0, IoText.val>>)
        ELSE /\ hist.step.status = "err" /\ hist.step.err = "IntParseError"
             /\ appQ[Len(appQ)] = EvLog("Step error")
             /\ regs = hist.step.regs
             /\ loaded = hist.step.loaded

\* C13 (reached): a suspended read-int was given a text that is no integer; v0 is still 5
C13_Witness ==
    /\ StepEnded /\ hist.step.by = "Io" /\ IoText.fmt = "text"
    /\ hist.step.status = "err"
    /\ regs[REG_V0] = <<0, 5>>

\* the last command taken off the channel was a Load, handled by the worker's Load arm
LoadEnded == hist.load.status # "none" /\ hist.load.at = Len(hist.consumed)
LoadEvents == SubSeq(appQ, hist.load.ev0 + 1, Len(appQ))
IsLog(e) == e.kind = "Log"

\* C14: right after the worker has handled a Load that failed, with a parse error or a load
\* error, that Load has emitted exactly one Log event and the loaded flag is false.
C14_FailedLoadUnloaded ==
    (LoadEnded /\ hist.load.status \in {"parse", "err"}) =>
        /\ Len(SelectSeq(LoadEvents, IsLog)) = 1
        /\ loaded = FALSE

\* the addresses of the instruction words the last load wrote
LoadedWordAddrs == {hist.load.lines[i][1] : i \in 1..Len(hist.load.lines)}

\* only Step commands have been taken off the channel since the last Load, at least one
OnlyStepsSinceLoad ==
    /\ hist.step.at > hist.load.at
    /\ \A i \in (hist.load.at + 1)..Len(hist.consumed) : hist.consumed[i].kind = "Step"

\* C15: after a Load that failed in the loader, the loaded flag is false and a Step
\* handled afterwards does not fetch and execute an instruction word that load wrote.
C15_FailedLoadNotExecutable ==
    (hist.load.status = "err" /\ OnlyStepsSinceLoad) =>
        /\ loaded = FALSE
        /\ hist.step.pc \notin LoadedWordAddrs


\* the worker's Reset arm handled the last command taken off the channel
ResetEnded ==
    /\ hist.consumed # <<>> /\ hist.consumed[Len(hist.consumed)].kind = "Reset"
    /\ hist.executed # <<>> /\ hist.executed[Len(hist.executed)].kind = "Reset"

ProbeAddrs == {0, ADDR_TEXT, ADDR_TEXT + 4, ADDR_STATIC - 2, ADDR_STATIC, ADDR_HEAP}
ProbeLens == {1, 4, BLOCK_SIZE + 4}

\* C18: right after a reset, whatever was loaded, stepped or failed before, read_view fills
\* any buffer with zeros (no block is left), the memory cursor is 0, PC is the text base,
\* sp is 0x80000000, gp is 0x10008000, every other register is 0, and loaded and active are
\* false; the state after a reset is therefore the same after a second reset.
C18_ResetState ==
    ResetEnded =>
        /\ \A a \in ProbeAddrs, n \in ProbeLens :
               read_view(mem, a, [i \in 1..n |-> 255]) = [i \in 1..n |-> 0]
        /\ DOMAIN mem.tree = {}
        /\ mem.pos = 0
        /\ pc = ADDR_TEXT
        /\ regs = [i \in 0..31 |-> IF i = 29 THEN <<32768, 0>>
                                     ELSE IF i = 28 THEN <<4096, 32768>> ELSE <<0, 0>>]
        /\ loaded = FALSE
        /\ active = FALSE

\* C18 (reached): a reset after a program was loaded and a step stored a word in memory
C18_Witness ==
    /\ ResetEnded
    /\ hist.load.status = "ok" /\ hist.step.status = "ok"
    /\ Hi(hist.step.word) \div 1024 = 43
    /\ pc = ADDR_TEXT


\* the addresses of the bytes of m that are not 0
NonZeroAddrs(m) ==
    UNION {{b + o : o \in {x \in 0..(BLOCK_SIZE - 1) : m.tree[b][x] # 0}} : b \in DOMAIN m.tree}

\* the last load's nodes are instructions, labels and sections only: every byte it wrote
\* belongs to an instruction word
TextOnlyLoad ==
    \A i \in 1..Len(hist.load.nodes) :
        hist.load.nodes[i].kind \in {"Section", "Label", "InstR", "InstI", "InstJ"}

\* C19: right after a successful load, memory holds what the same load leaves on a new
\* processor (for a program of instructions only: every byte outside the instruction words
\* this load wrote is 0), whatever earlier programs and steps had written; sp is 0x80000000,
\* gp is 0x10008000, every other register is 0, PC is the text base and loaded is true.
C19_CleanSlateLoad ==
    (LoadEnded /\ hist.load.status = "ok") =>
        /\ mem.tree = LoadPasses(hist.load.nodes).mem.tree
        /\ TextOnlyLoad =>
              NonZeroAddrs(mem) \subseteq {a + k : a \in LoadedWordAddrs, k \in 0..3}
        /\ regs = [i \in 0..31 |-> IF i = 29 THEN <<32768, 0>>
                                     ELSE IF i = 28 THEN <<4096, 32768>> ELSE <<0, 0>>]
        /\ pc = ADDR_TEXT
        /\ loaded = TRUE

\* C19 (reached): a one-instruction program was loaded after another program whose step
\* executed a store to the heap
C19_Witness ==
    /\ LoadEnded /\ hist.load.status = "ok" /\ TextOnlyLoad
    /\ hist.step.status = "ok" /\ hist.step.at < hist.load.at
    /\ Hi(hist.step.word) \div 1024 = 43
    /\ Len(hist.load.lines) = 1
    /\ NonZeroAddrs(mem) # {}

-----------------------------------------------------------------------------
(* Properties of label resolution and decoding, checked under SpecAsm.     *)

\* the label names the instructions of the last load reference, and those it defines
ReferencedLabels ==
    {hist.load.nodes[i].imm.label : i \in
        {j \in 1..Len(hist.load.nodes) :
            /\ hist.load.nodes[j].kind \in {"InstI", "InstJ", "InstPseudo"}
            /\ hist.load.nodes[j].imm.t = "Label"}}
DefinedLabels ==
    {hist.load.nodes[i].name : i \in {j \in 1..Len(hist.load.nodes) : hist.load.nodes[j].kind = "Label"}}

\* the field of the loaded word(s) of queued reference e holds address a
ResolvedTo(e, a) ==
    LET w == WordAt(mem, e.addr)
    IN  CASE e.node.kind = "InstJ" -> (Hi(w) % 1024) * 65536 + Lo(w) = (a \div 4) % 67108864
          [] e.node.kind = "InstI" /\ e.node.inst \in {"beq", "bne"} ->
               Lo(w) = ((a - (e.addr + 4)) \div 4) % 65536
          [] e.node.kind = "InstI" -> Lo(w) = (a \div 4) % 65536
          [] OTHER -> Lo(w) = a \div 65536 /\ Lo(WordAt(mem, e.addr + 4)) = a % 65536

C16_WitnessResolved ==
    /\ Loaded({"label"}) /\ hist.load.src.a = 6 /\ hist.load.status = "ok"
    /\ Len(hist.load.nwl) = 2
    /\ WordAt(mem, ADDR_TEXT + 8) = <<2048 + 16, 3>>

\* C17: a step that fetched a word whose opcode/func is not in the instruction table has
\* returned Ok (the worker reports the new PC) and has left PC, the 32 registers, the
\* contents of memory and the loaded flag as they were.
C17_UnknownWordIsNoOp ==
    (hist.step.status # "none" /\ hist.step.at = Len(hist.consumed) /\ ~FetchedKnown) =>
        /\ hist.step.status = "ok"
        /\ appQ[Len(appQ)] = EvLog("New PC")
        /\ pc = hist.step.pc
        /\ regs = hist.step.regs
        /\ mem.tree = hist.step.tree
        /\ loaded = hist.step.loaded

\* C17 (reached): the word 0x04000000 (opcode 1) was fetched from a loaded program
C17_Witness ==
    /\ hist.step.status = "ok" /\ hist.step.at = Len(hist.consumed)
    /\ Fetched = <<1024, 0>>
    /\ loaded = TRUE
    /\ pc = ADDR_TEXT

\* C17 (reached, R-type): the word 0x00000001 (opcode 0, func 1) was fetched
C17_WitnessFunc ==
    /\ hist.step.status = "ok" /\ hist.step.at = Len(hist.consumed)
    /\ Fetched = <<0, 1>>
    /\ pc = ADDR_TEXT

-----------------------------------------------------------------------------
(* Properties of single instructions, checked under SpecAsm.               *)

\* the last step ran to its end and had fetched the word at address a
SteppedAt(a) == hist.step.status # "none" /\ hist.step.at = Len(hist.consumed) /\ hist.step.pc = a

\* C21: the step that executes `subu $v0, $t0, $t1` (third word of the program, t0 = a,
\* t1 = b) returns Ok, leaves v0 = (a - b) mod 2^32, PC 4 further, rs and rt as they were
\* and the contents of memory unchanged, and has moved the memory cursor only by the fetch.
C21_SubuSubtracts ==
    (Loaded({"subu"}) /\ SteppedAt(ADDR_TEXT + 8)) =>
        /\ hist.step.status = "ok"
        /\ regs[REG_V0] = I32ToWord(hist.load.src.a - hist.load.src.b)
        /\ regs[REG_T0] = hist.step.regs[REG_T0]
        /\ regs[REG_T1] = hist.step.regs[REG_T1]
        /\ pc = ADDR_TEXT + 12
        /\ mem.tree = hist.step.tree
        /\ mem.pos = ADDR_TEXT + 12

C23_LaThenJr ==
    (Loaded({"lajr"}) /\ hist.load.status = "ok" /\ SteppedAt(ADDR_TEXT + 8)) =>
        /\ hist.step.status = "ok"
        /\ hist.step.regs[REG_T0] = WordOfNat(hist.load.labels["L"])
        /\ pc = hist.load.labels["L"]

-----------------------------------------------------------------------------
(* Properties of the parser, checked under SpecAsm.                        *)

\* the index of the lexeme `frobnicate` among the lexemes of the last load's source
UnknownAt ==
    CHOOSE k \in 1..Len(SourceOf(hist.load.src)) : SourceOf(hist.load.src)[k].text = "frobnicate"

\* C26: for a source with the statement `frobnicate` (with or without operands, after 0 to
\* MaxDist parsed statements, before 0 or 1 more), parse returns UnknownInstruction with
\* the mnemonic as its payload, its cursor is at the lexeme right after the mnemonic (no
\* operand was consumed), it returns no node at all, and the worker logs one parse error.
C26_UnknownInstruction ==
    Loaded({"unknown"}) =>
        /\ hist.load.status = "parse"
        /\ hist.load.err = "UnknownInstruction"
        /\ hist.load.arg = "frobnicate"
        /\ hist.load.pos = UnknownAt + 1
        /\ hist.load.nodes = <<>>
        /\ LoadEvents = <<EvLog("Parse error")>>

\* C26 (reached): the unknown mnemonic had operands and followed parsed statements, and
\* statements followed it
C26_Witness ==
    /\ Loaded({"unknown"}) /\ hist.load.status = "parse"
    /\ hist.load.src.a > 0 /\ hist.load.src.b > 0 /\ hist.load.src.c = 1
    /\ hist.load.pos < Len(SourceOf(hist.load.src))
    /\ SourceOf(hist.load.src)[hist.load.pos].kind = "Reg"

\* C28: after `addi $t0, $zero, a` and one step of `sll $v0, $t0, b` (srl, sra), $v0 holds
\* a shifted left (logically right, arithmetically right) by b modulo 2^32, $t0 is
\* unchanged and PC has advanced by 4.
C28_ShiftsRt ==
    (Loaded({"shift"}) /\ SteppedAt(ADDR_TEXT + 4)) =>
        /\ hist.step.status = "ok"
        /\ regs[REG_V0] = CASE hist.load.src.c = 1 -> WShl(I32ToWord(hist.load.src.a), hist.load.src.b)
                            [] hist.load.src.c = 2 -> WShr(I32ToWord(hist.load.src.a), hist.load.src.b)
                            [] OTHER -> WSra(I32ToWord(hist.load.src.a), hist.load.src.b)
        /\ regs[REG_T0] = I32ToWord(hist.load.src.a)
        /\ pc = ADDR_TEXT + 8

-----------------------------------------------------------------------------
(* Properties of the loader's encoding, checked under SpecAsm.             *)

\* the word pass 1 wrote for the one instruction of an "enc" source, and its node
EncWord == WordAt(hist.load.pass1, ADDR_TEXT)
EncNode == hist.load.nodes[2]

\* C27: for every accepted statement of EncInsts with literal operands, the word the
\* loader writes decodes to the table's opcode (and func), and each operand field decodes
\* to the value the parser produced (a J-type literal is stored shifted right by two).
C27_FieldsInRange ==
    (Loaded({"enc"}) /\ hist.load.status = "ok") =>
        /\ FieldOpcode(EncWord) = INST_MNEMONICS(EncNode.inst).opcode
        /\ CASE INST_MNEMONICS(EncNode.inst).ty = "R" ->
                   /\ FieldRs(EncWord) = EncNode.rs /\ FieldRt(EncWord) = EncNode.rt
                   /\ FieldRd(EncWord) = EncNode.rd /\ FieldShamt(EncWord) = EncNode.shamt
                   /\ FieldFunc(EncWord) = INST_MNEMONICS(EncNode.inst).func
             [] INST_MNEMONICS(EncNode.inst).ty = "J" ->
                   FieldAddr(EncWord) = WShr(EncNode.imm.addr, 2)
             [] OTHER ->
                   /\ FieldRs(EncWord) = EncNode.rs /\ FieldRt(EncWord) = EncNode.rt
                   /\ FieldImm(EncWord) = EncNode.imm.half

\* the address a queued plain instruction's label is bound to
RefLabel(e) == hist.load.labels[e.node.imm.label]

\* the low 16 bits of every loaded beq/bne that names a label are the word offset from the
\* instruction after it to the label, modulo 2^16
BranchFields ==
    \A i \in 1..Len(hist.load.nwl) :
        LET e == hist.load.nwl[i]
        IN  (e.node.kind = "InstI" /\ e.node.inst \in INST_ADDR_RELATIVE) =>
                FieldImm(WordAt(mem, e.addr)) = ((RefLabel(e) - (e.addr + 4)) \div 4) % H16

\* C29 (as stated): after a successful load every beq/bne that names a label has the
\* offset modulo 2^16 in its low 16 bits, and every other instruction that names a label
\* has the whole of label_addr >> 2 in its field.
C29_LabelFieldsWhole ==
    hist.load.status = "ok" =>
        /\ BranchFields
        /\ \A i \in 1..Len(hist.load.nwl) :
               LET e == hist.load.nwl[i]
               IN  /\ e.node.kind = "InstJ" =>
                          NatOfWord(FieldAddr(WordAt(mem, e.addr))) = RefLabel(e) \div 4
                   /\ (e.node.kind = "InstI" /\ e.node.inst \notin INST_ADDR_RELATIVE) =>
                          FieldImm(WordAt(mem, e.addr)) = RefLabel(e) \div 4

\* C29 (amended): after a successful load every beq/bne that names a label has the offset
\* modulo 2^16 in its low 16 bits, and every other instruction that names a label has in
\* its field the bits of label_addr >> 2 that fit it: the low 26 of a J-type, the low 16
\* of an I-type.
C29_LabelFields ==
    hist.load.status = "ok" =>
        /\ BranchFields
        /\ \A i \in 1..Len(hist.load.nwl) :
               LET e == hist.load.nwl[i]
               IN  /\ e.node.kind = "InstJ" =>
                          NatOfWord(FieldAddr(WordAt(mem, e.addr))) =
                          (RefLabel(e) \div 4) % (1024 * H16)
                   /\ (e.node.kind = "InstI" /\ e.node.inst \notin INST_ADDR_RELATIVE) =>
                          FieldImm(WordAt(mem, e.addr)) = (RefLabel(e) \div 4) % H16

\* C29 (reached): a loaded branch to a label one or more instructions before it, whose offset
\* is negative
C29_Witness ==
    /\ Loaded({"bback"}) /\ hist.load.status = "ok"
    /\ hist.load.src.a > 0
    /\ FieldImm(RefWord) = H16 - (hist.load.src.a + hist.load.src.c + 1)

\* The memory cursor before and after node k of the last load, the bytes the node wrote
\* and the addresses of the instruction words it emitted
PosBefore(k) == LoadPass1(MemNew, SubSeq(hist.load.nodes, 1, k - 1)).mem.pos
PosAfter(k) == LoadPass1(MemNew, SubSeq(hist.load.nodes, 1, k)).mem.pos
IsInstNode(k) == hist.load.nodes[k].kind \in {"InstR", "InstI", "InstJ", "InstPseudo"}
IsDataNode(k) ==
    hist.load.nodes[k].kind = "Directive" /\ hist.load.nodes[k].name # "align"
WrittenBy(k) ==
    IF IsInstNode(k) \/ IsDataNode(k) THEN PosBefore(k)..(PosAfter(k) - 1) ELSE {}
InstWords(k) ==
    IF IsInstNode(k) THEN {a \in WrittenBy(k) : (a - PosBefore(k)) % 4 = 0} ELSE {}
\* the word node k emitted at a is still in memory: no later node wrote any of its bytes
StillThere(k, a) ==
    \A j \in (k + 1)..Len(hist.load.nodes) : WrittenBy(j) \cap (a..(a + 3)) = {}

\* the PC-to-line map the worker sent after the last load
SentPcLines == LoadEvents[2].lines

\* C30: after a successful load the map sent to the application has, for every word an
\* instruction or pseudo-instruction emitted (both words of `la`, the word of `nop`) that
\* no later statement overwrote, an entry with the line of that statement, and every
\* entry is the address of a word some instruction emitted: none is an address that only
\* data directives wrote.
C30_PcLinesCoverInstructions ==
    (hist.load.status = "ok" /\ Len(LoadEvents) >= 2 /\ LoadEvents[2].kind = "PcLines") =>
        /\ \A k \in 1..Len(hist.load.nodes) : \A a \in InstWords(k) :
               StillThere(k, a) =>
                   /\ a \in DOMAIN SentPcLines
                   /\ SentPcLines[a] = hist.load.nodes[k].line
        /\ \A a \in DOMAIN SentPcLines : \E k \in 1..Len(hist.load.nodes) : a \in InstWords(k)

\* C30 (reached): a loaded program with a nop, a two-word `la` and a direct instruction
\* around a data word in the text segment, whose address has no entry
C30_Witness ==
    /\ Loaded({"lines"}) /\ hist.load.src.a = 1 /\ hist.load.status = "ok"
    /\ Len(LoadEvents) >= 2 /\ LoadEvents[2].kind = "PcLines"
    /\ DOMAIN SentPcLines = {ADDR_TEXT, ADDR_TEXT + 4, ADDR_TEXT + 8, ADDR_TEXT + 16, ADDR_TEXT + 20}
    /\ SentPcLines[ADDR_TEXT + 4] = 2 /\ SentPcLines[ADDR_TEXT + 8] = 2
    /\ SentPcLines[ADDR_TEXT + 16] = 4

\* C30 (reached): the instruction of a second .text replaced the first nop, and the entry
\* of its address has the line of the later statement
C30_WitnessOverwritten ==
    /\ Loaded({"lines"}) /\ hist.load.src.a = 2 /\ hist.load.status = "ok"
    /\ Len(LoadEvents) >= 2 /\ LoadEvents[2].kind = "PcLines"
    /\ SentPcLines[ADDR_TEXT] = 4 /\ SentPcLines[ADDR_TEXT + 4] = 2

-----------------------------------------------------------------------------
(* Properties of the directives of pass 1, checked under SpecAsm.          *)

\* the least multiple of n that is not below x
NextMultiple(x, n) == CHOOSE y \in x..(x + n - 1) : y % n = 0

C31_WitnessStringz ==
    /\ Loaded({"dir"}) /\ hist.load.status = "ok"
    /\ hist.load.src.c = 5 /\ hist.load.src.a = 3
    /\ hist.load.labels["E"] = ADDR_STATIC + 8

\* C34: after `addi $zero, $zero, a` register 0 holds a; the nop that follows (sll $zero,
\* $zero, 0) reads and writes that value back, and `addi $t0, $zero, b` then computes
\* a + b.
C34_ZeroIsWritable ==
    Loaded({"zero"}) =>
        /\ (SteppedAt(ADDR_TEXT) \/ SteppedAt(ADDR_TEXT + 4)) =>
               hist.step.status = "ok" /\ regs[REG_ZERO] = I32ToWord(hist.load.src.a)
        /\ SteppedAt(ADDR_TEXT + 8) =>
               /\ hist.step.status = "ok"
               /\ regs[REG_ZERO] = I32ToWord(hist.load.src.a)
               /\ regs[REG_T0] = I32ToWord(hist.load.src.a + hist.load.src.b)

\* C34 (reached): register 0 held 5 when `addi $t0, $zero, 1` ran, and $t0 is 6
C34_Witness ==
    /\ Loaded({"zero"}) /\ SteppedAt(ADDR_TEXT + 8)
    /\ hist.load.src.a = 5 /\ hist.load.src.b = 1
    /\ hist.step.regs[REG_ZERO] = W(0, 5) /\ regs[REG_T0] = W(0, 6)

-----------------------------------------------------------------------------
(* Properties of literal operands, checked under SpecAsm.                  *)

\* C32: a literal that fits the slot, written in decimal or with a 0x prefix, is accepted
\* in the signed slot of addi and lw, the unsigned slot of addiu and the address slot of
\* j, and the node holds its value either way.
C32_DecimalAndHex ==
    Loaded({"imm"}) =>
        /\ hist.load.status = "ok"
        /\ IF EncNode.imm.t = "Addr" THEN EncNode.imm.addr = WordOfNat(hist.load.src.b)
           ELSE EncNode.imm.t = "Half" /\ EncNode.imm.half = hist.load.src.b

-----------------------------------------------------------------------------
(* Properties of the syscalls, checked under SpecAsm.                      *)

\* C33: the step of a print-string syscall whose string has 2, 1024 or 1025 characters
\* before its NUL ends normally: the worker is idle again and takes further commands, and
\* the memory cursor is at most 1025 bytes past the string's address.
C33_PrintStringCapped ==
    (Loaded({"longstr"}) /\ SteppedAt(ADDR_TEXT + 12)) =>
        /\ hist.step.status = "ok"
        /\ wstate = "idle"
        /\ mem.pos <= ADDR_STATIC + 1025

-----------------------------------------------------------------------------
(* Properties of the instruction table, checked under SpecAsm.             *)

\* the table entry step looks up for a fetched word
StepInst(data) ==
    IF FieldOpcode(data) = 0 THEN INST_OPCODE_FUNC(0, FieldFunc(data))
    ELSE INST_OPCODE_FUNC(FieldOpcode(data), 0)

\* C36: for every real instruction of a loaded program, the lookup by the (opcode, func)
\* key of its table entry returns that entry, and the step that fetches the word the
\* loader emitted for it looks up that same entry.
C36_DecodeAgrees ==
    hist.load.status = "ok" =>
        \A k \in 1..Len(hist.load.nodes) :
            hist.load.nodes[k].kind \in {"InstR", "InstI", "InstJ"} =>
                /\ INST_OPCODE_FUNC(INST_MNEMONICS(hist.load.nodes[k].inst).opcode,
                                    INST_MNEMONICS(hist.load.nodes[k].inst).func)
                       = INST_MNEMONICS(hist.load.nodes[k].inst)
                /\ \A a \in InstWords(k) :
                       (StillThere(k, a) /\ SteppedAt(a)) =>
                           StepInst(hist.step.word) = INST_MNEMONICS(hist.load.nodes[k].inst)

-----------------------------------------------------------------------------
(* Totality of the parser, checked under SpecAsm.                          *)

\* C37: the parse of every loaded source returns Ok or Err, and the Load of a source
\* with a bare word after a complete statement (`nop foo`) has an error result and
\* leaves the worker handling commands.
C37_ParseTotal ==
    hist.load.status # "none" =>
        /\ \A wordArm \in {"imm", "none"} :
               parse(SourceOf(hist.load.src), wordArm).status \in {"ok", "err"}
        /\ (Loaded({"stray"}) /\ hist.load.at = Len(hist.consumed)) =>
               /\ hist.load.status = "parse"
               /\ hist.load.err # "lexer gave bad input to parser"
               /\ wstate = "idle"

-----------------------------------------------------------------------------
(* The range of the addresses the interpreter uses, checked under SpecAsm. *)

\* an address of the logical range [0, 2^32)
InLogicalRange(a) == a >= 0 /\ a \div H16 < H16

\* the address the last step's load or store set the cursor to
StepEffAddr == EffAddr(hist.step.regs, FieldRs(Fetched), FieldImm(Fetched))

\* C38: PC, the address of every fetch, the effective address of every load and store
\* a step executed and the base of every allocated block lie in [0, 2^32).
C38_AddressesInRange ==
    /\ InLogicalRange(pc)
    /\ \A base \in DOMAIN mem.tree : InLogicalRange(base)
    /\ StepEnded =>
           /\ InLogicalRange(hist.step.pc)
           /\ StepInst(Fetched).ty = "Ils" => InLogicalRange(StepEffAddr)

-----------------------------------------------------------------------------
(* Input lines and syscall 5, checked under SpecRun.                       *)

\* the worker is about to take an Io command in its main loop
IoWhileIdle == wstate = "idle" /\ procQ # <<>> /\ Head(procQ).kind = "Io"

\* the last command was a Step that fetched a syscall with v0 = 5
ReadIntBegun ==
    /\ hist.step.status # "none" /\ hist.step.at = Len(hist.consumed) /\ hist.step.by = ""
    /\ FetchedSyscall /\ hist.step.regs[REG_V0] = W(0, 5)

-----------------------------------------------------------------------------
(* Alignment of the program counter, checked under SpecAsm.                *)

\* C40: in every state, after any reset, load and steps, whatever the registers and the
\* targets of branches and jumps, PC is a multiple of 4.
C40_PcAligned == pc % 4 = 0

\* C40 (reached): a jr through a register whose content is no multiple of 4 has set PC
C40_Witness ==
    /\ Loaded({"call"}) /\ StepEnded
    /\ FieldOpcode(Fetched) = 0 /\ FieldFunc(Fetched) = 8
    /\ NatOfWord(hist.step.regs[FieldRs(Fetched)]) % 4 # 0
    /\ pc = NatOfWord(hist.step.regs[FieldRs(Fetched)]) * 4

\* C40 (reached, branch): a taken backward branch has set PC
C40_WitnessBranch ==
    /\ StepEnded /\ hist.step.status = "ok"
    /\ StepInst(Fetched).mnemonic \in INST_ADDR_RELATIVE
    /\ pc # hist.step.pc + 4

-----------------------------------------------------------------------------
(* The application's side of the event channel (app/mod.rs): App::update   *)
(* takes each AppMessage and applies a Sync to its copy of the processor   *)
(* state.  The messages are drawn from a bounded set.                      *)

MaxSyncs == 2
SyncRegs == {REG_ZERO, REG_T0, REG_RA}
SyncValues == {WZero, W(0, 5)}
SyncSets == {RegistersDefault, [i \in 0..31 |-> W(0, 7)]}
SyncDiffs == UNION {[d -> SyncValues] : d \in SUBSET SyncRegs}
SyncPcs == {ADDR_TEXT, ADDR_TEXT + 4}

\* struct ProcSync {pc, regs: RegSync, active}; set is read for Set, diff for Diff
ProcSyncSet(ppc, act, r) ==
    [pc |-> ppc, active |-> act, mode |-> "Set", set |-> r, diff |-> EmptyFn]
ProcSyncDiff(ppc, act, d) ==
    [pc |-> ppc, active |-> act, mode |-> "Diff", set |-> RegistersDefault, diff |-> d]

ProcSyncs ==
    {ProcSyncSet(p, a, r) : p \in SyncPcs, a \in BOOLEAN, r \in SyncSets} \cup
    {ProcSyncDiff(p, a, d) : p \in SyncPcs, a \in BOOLEAN, d \in SyncDiffs}

\* a receiver that takes a Diff as the whole register file
ProcStateSyncReplace(ps, sync) ==
    [regs |-> IF sync.mode = "Set" THEN sync.set
              ELSE [i \in 0..31 |-> IF i \in DOMAIN sync.diff THEN sync.diff[i] ELSE WZero],
     pc |-> sync.pc, active |-> sync.active]

\* ProcState::sync
ProcStateSync(ps, sync) ==
    [regs |-> IF sync.mode = "Set" THEN sync.set
              ELSE [i \in 0..31 |-> IF i \in DOMAIN sync.diff THEN sync.diff[i] ELSE ps.regs[i]],
     pc |-> sync.pc, active |-> sync.active]

\* one message taken off the event channel
AppOp ==
    /\ hist.ops < MaxSyncs
    /\ UNCHANGED <<regs, mem, pc, loaded, active, procQ, appQ, wstate, nsent, rbuf, flat, lexer>>

\* App::update, AppMessage::Sync(sync) => self.proc.sync(sync)
AppRecvSync(sync) ==
    /\ AppOp
    /\ proc_state' = ProcStateSync(proc_state, sync)
    /\ hist' = [hist EXCEPT !.ops = @ + 1, !.op = "sync",
                            !.sync = [regs |-> proc_state.regs, mode |-> sync.mode,
                                      diff |-> sync.diff, set |-> sync.set]]

\* App::update, the PcLines, Io and Log arms: the copy of the processor state is not touched
AppRecvOther(kind) ==
    /\ AppOp
    /\ hist' = [hist EXCEPT !.ops = @ + 1, !.op = kind]
    /\ UNCHANGED proc_state

InitSync == InitProc /\ procQ = <<>> /\ nsent = 0 /\ lexer = NoLexer

NextSync ==
    \/ \E sync \in ProcSyncs : AppRecvSync(sync)
    \/ \E kind \in {"PcLines", "Io", "Log"} : AppRecvOther(kind)

SpecSync == InitSync /\ [][NextSync]_vars

-----------------------------------------------------------------------------
(* SpecApp: the worker under a script of at most MaxAppCmds commands and   *)
(* the application taking the events it emits.                             *)

MaxAppCmds == 4     \* commands of a script

AppCommands ==
    {CmdReset, CmdStep, CmdIo(InNum(7)), CmdLoad(Src("readint", 0, 0, 0)),
     CmdLoad(Src("label", 1, 0, 0))}

RECURSIVE AppScriptsOf(_)
AppScriptsOf(n) ==
    IF n = 0 THEN {<<>>}
    ELSE AppScriptsOf(n - 1) \cup
         {Append(s, c) : s \in {t \in AppScriptsOf(n - 1) : Len(t) = n - 1}, c \in AppCommands}

\* the ProcSync a Sync event carries
SyncOfEvent(ev) ==
    IF ev.rmode = "Set" THEN ProcSyncSet(ev.pc, ev.active, ev.regs)
    ELSE ProcSyncDiff(ev.pc, ev.active, ev.regs)

\* App::update, one iteration of its loop: the next event is taken off the channel;
\* hist.ops counts the events taken
AppUpdate ==
    /\ hist.ops < Len(appQ)
    /\ proc_state' = IF appQ[hist.ops + 1].kind = "Sync"
                     THEN ProcStateSync(proc_state, SyncOfEvent(appQ[hist.ops + 1]))
                     ELSE proc_state
    /\ hist' = [hist EXCEPT !.ops = @ + 1, !.op = appQ[hist.ops + 1].kind]
    /\ UNCHANGED <<regs, mem, pc, loaded, active, procQ, appQ, wstate, nsent, rbuf, flat, lexer>>

InitApp ==
    /\ InitProc
    /\ nsent = 0
    /\ lexer = NoLexer
    /\ procQ \in AppScriptsOf(MaxAppCmds)

NextApp ==
    \/ WorkerReset
    \/ WorkerLoad
    \/ WorkerStep
    \/ WorkerIo
    \/ BlockedRecv
    \/ AppUpdate

SpecApp == InitApp /\ [][NextApp]_vars

\* C35: when the worker is idle and the application has taken every event emitted so
\* far, its copy of pc, of the registers and of the active flag equals the processor's.
C35_ReceiverConsistent ==
    (wstate = "idle" /\ hist.ops = Len(appQ)) =>
        /\ proc_state.pc = pc
        /\ proc_state.regs = regs
        /\ proc_state.active = active


-----------------------------------------------------------------------------
(* Properties of the receiver, checked under SpecSync.                     *)

\* C20: right after the receiver applied a Sync, if it carried a Diff every register named
\* in the diff holds the diff's value and every other register holds the value the receiver
\* knew before (it is not zeroed); if it carried a Set the 32 registers are those of the Set.
C20_SyncMerge ==
    hist.op = "sync" =>
        /\ hist.sync.mode = "Diff" =>
              \A i \in 0..31 :
                  proc_state.regs[i] = IF i \in DOMAIN hist.sync.diff THEN hist.sync.diff[i]
                                       ELSE hist.sync.regs[i]
        /\ hist.sync.mode = "Set" => proc_state.regs = hist.sync.set

\* C20 (reached): a Diff naming some registers was applied while the receiver knew a
\* non-zero value of a register the diff does not name
C20_Witness ==
    /\ hist.op = "sync" /\ hist.sync.mode = "Diff"
    /\ DOMAIN hist.sync.diff # {}
    /\ \E i \in 0..31 : /\ i \notin DOMAIN hist.sync.diff
                         /\ hist.sync.regs[i] # WZero
                         /\ proc_state.regs[i] = hist.sync.regs[i]

\* C20 (reached, Set): a Set was applied over registers a Diff had changed
C20_WitnessSet ==
    /\ hist.op = "sync" /\ hist.sync.mode = "Set"
    /\ hist.sync.regs[REG_T0] = W(0, 5)
    /\ proc_state.regs = RegistersDefault

-----------------------------------------------------------------------------
(* SpecLex: one text of at most MaxLen characters is lexed, one iteration  *)
(* of the loop of Lexer::lex at a time, with both kinds of optional        *)
(* lexemes enabled or both disabled.                                       *)

MaxLen == 3

LexTexts == UNION {[1..n -> LexChars] : n \in 0..MaxLen}

\* while let Some((idx, c)) = self.chars.next() { match c { ... } }
LexNext ==
    /\ ~lexer.done /\ lexer.next <= Len(lexer.text)
    /\ lexer' = LexIter(lexer, lexer.text[lexer.next], lexer.next + 1)
    /\ UNCHANGED <<regs, mem, pc, loaded, active, procQ, appQ, wstate, nsent, hist, rbuf, flat,
                   proc_state>>

\* chars.next() yields None: lex returns the lexemes
LexEnd ==
    /\ ~lexer.done /\ lexer.next > Len(lexer.text)
    /\ lexer' = [lexer EXCEPT !.done = TRUE]
    /\ UNCHANGED <<regs, mem, pc, loaded, active, procQ, appQ, wstate, nsent, hist, rbuf, flat,
                   proc_state>>

InitLex ==
    /\ InitProc /\ procQ = <<>> /\ nsent = 0
    /\ \E text \in LexTexts, on \in BOOLEAN : lexer = LexerNew(text, on, on)

NextLex == LexNext \/ LexEnd

SpecLex == InitLex /\ [][NextLex]_vars

-----------------------------------------------------------------------------
(* Properties of the lexer, checked under SpecLex.                         *)

\* the number of bytes of a text
RECURSIVE TextBytes(_)
TextBytes(text) == IF text = <<>> THEN 0 ELSE Width(Head(text)) + TextBytes(Tail(text))

\* C25: when lex with whitespace and comments enabled has returned, every lexeme's byte
\* range is non-empty, the first starts at 0, each next one starts where the one before
\* ends (so the ranges increase, without overlap or gap), and the last ends at the length
\* of the input in bytes; an empty input gives no lexeme.
C25_LexemesCoverInput ==
    (lexer.done /\ lexer.whitespace /\ lexer.comments) =>
        /\ \A k \in 1..Len(lexer.lexemes) :
               /\ lexer.lexemes[k].slice[1] < lexer.lexemes[k].slice[2]
               /\ lexer.lexemes[k].slice[1] =
                      (IF k = 1 THEN 0 ELSE lexer.lexemes[k - 1].slice[2])
        /\ IF lexer.text = <<>> THEN lexer.lexemes = <<>>
           ELSE /\ lexer.lexemes # <<>>
                /\ lexer.lexemes[Len(lexer.lexemes)].slice[2] = TextBytes(lexer.text)

\* C25 (reached): whitespace, a comment up to the newline, and the newline were lexed
C25_Witness ==
    /\ lexer.done /\ lexer.whitespace /\ lexer.comments
    /\ lexer.text = <<" ", ";", "\n">>
    /\ Len(lexer.lexemes) = 3
    /\ lexer.lexemes[2].kind = "Comment"

\* C25 (reached, coalescing): two whitespace characters after a two-byte letter form one
\* lexeme of bytes 2..4
C25_WitnessMerged ==
    /\ lexer.done /\ lexer.whitespace /\ lexer.comments
    /\ lexer.text = <<"E9", " ", "\n">>
    /\ Len(lexer.lexemes) = 2
    /\ lexer.lexemes[2] = Lexeme(2, 4, 0, "Whitespace")
=============================================================================
